---- MODULE Spec2Model ----
(***************************************************************************)
(* Model of advanced-cache-manager's layered access strategy               *)
(* (src/strategies/LayeredStrategy.ts) over its three store backends       *)
(* (MemoryStore, RedisStore, MemcachedStore) as seen through the IStore    *)
(* interface, and of CacheManager.exists.                                  *)
(*                                                                         *)
(* A store is a map from key to the value it holds (NULL when absent).     *)
(* Every operation of the strategy is one action; the per-call failures of *)
(* the stores (a backend error of a networked store, an open circuit of    *)
(* an in-process store) are inputs of the action.                          *)
(*                                                                         *)
(* Further parts model the tag, pattern and dependency invalidators over   *)
(* the stores' tag and dependency indexes, MemoryStore's glob matching,    *)
(* and BaseStore's circuit breaker.                                        *)
(***************************************************************************)
EXTENDS Integers, Sequences, FiniteSets, TLC

\* Largest number of stores a strategy is constructed with.
MaxStores == 2
\* Longest key list of mget and pair list of mset.
MaxKeys == 2

\* JavaScript's null (a miss) and undefined.
NULL == "<null>"
UNDEFINED == "<undefined>"

StoreTypes == {"MemoryStore", "RedisStore", "MemcachedStore"}

\* Keys a caller may pass: two well-formed keys and the empty string, which
\* validateKey rejects.
ValidKeys == {"k1", "k2"}
Keys == ValidKeys \cup {""}

\* Values a caller may store: the empty string is falsy in JavaScript.
Values == {"", "v1"}

VARIABLES
  config,   \* the store types in the order they were configured
  stores,   \* LayeredStrategy.stores: store ids (positions of config), sorted
  data,     \* data[s][k]: the value store s holds for key k, or NULL
  last,     \* the last completed call: its arguments, inputs and outcome
  indexes,  \* indexes[s]: the tags and dependencies of the entries of store s,
            \* and its tag and dependency indexes
  hist,     \* hist[k]: the value and options of the last set of key k
  trace,    \* the course of the last dependency invalidation
  glob,     \* a pattern, a key and the outcome of matching them
  breaker,  \* the circuit breaker of one store, the clock and the last call
  pending,  \* the store invalidations of async calls that have not settled
  timers,   \* the clock, and for every entry when it was written and its ttl
  metrics,  \* the counters of the manager's MetricsCollector
  inflight  \* the calls that have started and not completed, and how far
            \* each has come

\* The state of the invalidation subsystems, of the glob matcher and of the
\* circuit breaker.  The calls of the layered strategy modelled by DoSet,
\* DoDel, DoMGet, DoMSet and DoExists pass no options, and in the runs they
\* take part in no entry carries a tag or a dependency.
aux == <<indexes, hist, trace, glob, breaker, pending, timers, metrics, inflight>>

vars == <<config, stores, data, last, indexes, hist, trace, glob, breaker, pending, timers, metrics, inflight>>

----------------------------------------------------------------------------
(* BaseStore *)

\* A key that is not a string (a number, an object) in the calls that try
\* one.
NotAString == "<number>"

\* validateKey throws unless the key is a non-empty string.
validateKey(key) == key # "" /\ key # NotAString

\* A store that takes any value.
acceptsUndefined(value) == TRUE

\* validateValue throws on undefined.
validateValue(value) == value # UNDEFINED

\* JavaScript truthiness of a value handed back by a store.
Truthy(v) == v # NULL /\ v # "" /\ v # UNDEFINED

\* The error a failing call of a store of type t reports.  An in-process
\* store fails only with its breaker open, which is tested before the
\* operation (and its validation) runs; a networked store validates first
\* and then fails in the backend call.
Unavailable(t) == IF t = "MemoryStore" THEN "circuit-open" ELSE "backend-error"

----------------------------------------------------------------------------
(* The stores' operations.  m is the store's map, down says whether this   *)
(* call is rejected (open circuit / backend error).  Each returns          *)
(* threw, the error, the result and the store's map afterwards.            *)

Outcome(threw, error, value, m) ==
  [threw |-> threw, error |-> error, value |-> value, map |-> m]

KeyError(t, key, down) ==
  IF t = "MemoryStore" /\ down THEN Unavailable(t)
  ELSE IF ~validateKey(key) THEN "invalid-key"
  ELSE IF down THEN Unavailable(t)
  ELSE "none"

StoreGet(t, m, key, down) ==
  LET e == KeyError(t, key, down) IN
  IF e # "none" THEN Outcome(TRUE, e, NULL, m)
  ELSE Outcome(FALSE, "none", m[key], m)

StoreSet(t, m, key, value, down) ==
  LET e == IF t = "MemoryStore" /\ down THEN Unavailable(t)
           ELSE IF ~validateKey(key) THEN "invalid-key"
           ELSE IF ~validateValue(value) THEN "undefined-value"
           ELSE IF down THEN Unavailable(t)
           ELSE "none" IN
  IF e # "none" THEN Outcome(TRUE, e, NULL, m)
  ELSE Outcome(FALSE, "none", NULL, [m EXCEPT ![key] = value])

\* MemoryStore.del and MemcachedStore.del test the raw entry; RedisStore.del
\* reads the value through its own get and tests its truthiness.
StoreDel(t, m, key, down) ==
  LET e == KeyError(t, key, down) IN
  IF e # "none" THEN Outcome(TRUE, e, FALSE, m)
  ELSE IF t = "RedisStore"
       THEN IF ~Truthy(StoreGet(t, m, key, down).value)
            THEN Outcome(FALSE, "none", FALSE, m)
            ELSE Outcome(FALSE, "none", TRUE, [m EXCEPT ![key] = NULL])
       ELSE IF m[key] = NULL
            THEN Outcome(FALSE, "none", FALSE, m)
            ELSE Outcome(FALSE, "none", TRUE, [m EXCEPT ![key] = NULL])

\* MemoryStore.exists: cache.has; RedisStore.exists: EXISTS; MemcachedStore:
\* get(key) !== null.
StoreExists(t, m, key, down) ==
  LET e == KeyError(t, key, down) IN
  IF e # "none" THEN Outcome(TRUE, e, FALSE, m)
  ELSE IF t = "MemcachedStore"
       THEN Outcome(FALSE, "none", StoreGet(t, m, key, down).value # NULL, m)
       ELSE Outcome(FALSE, "none", m[key] # NULL, m)

\* What a backend answers for a key in a multi-key read: a key that was never
\* stored (the empty key cannot be) is absent.
Lookup(m, key) == IF key \in DOMAIN m THEN m[key] ELSE NULL

\* MemoryStore.mget calls get for every key, so one rejected key fails the
\* whole call; RedisStore.mget and MemcachedStore.mget hand the keys to the
\* backend without validating them.
StoreMGet(t, m, keys, down) ==
  IF down THEN Outcome(TRUE, Unavailable(t), <<>>, m)
  ELSE IF t = "MemoryStore" /\ \E i \in 1..Len(keys) : ~validateKey(keys[i])
       THEN Outcome(TRUE, "invalid-key", <<>>, m)
       ELSE Outcome(FALSE, "none", [i \in 1..Len(keys) |-> Lookup(m, keys[i])], m)

\* Writes pairs[ord[1]], pairs[ord[2]], ... one after the other, each through
\* the store's set, up to the first that throws when stopAtError.
RECURSIVE WritePairs(_, _, _, _, _, _)
WritePairs(t, m, pairs, ord, i, stopAtError) ==
  IF i > Len(ord) THEN Outcome(FALSE, "none", NULL, m)
  ELSE LET p == pairs[ord[i]]
           r == StoreSet(t, m, p[1], p[2], FALSE)
           rest == WritePairs(t, r.map, pairs, ord, i + 1, stopAtError) IN
       IF r.threw
       THEN IF stopAtError THEN Outcome(TRUE, r.error, NULL, m)
            ELSE Outcome(TRUE, r.error, NULL, rest.map)
       ELSE rest

Identity(n) == [i \in 1..n |-> i]

\* The first error among the pairs in list order, "none" if every pair is
\* well formed.
RECURSIVE FirstPairError(_, _)
FirstPairError(pairs, i) ==
  IF i > Len(pairs) THEN "none"
  ELSE IF ~validateKey(pairs[i][1]) THEN "invalid-key"
  ELSE IF ~validateValue(pairs[i][2]) THEN "undefined-value"
  ELSE FirstPairError(pairs, i + 1)

\* MemoryStore.mset: set pair after pair, the first throw ends the loop with
\* the earlier pairs written.  RedisStore.mset: every pair is validated while
\* the pipeline is built, and nothing is sent if one throws.  MemcachedStore.
\* mset: all sets are started at once (Promise.all), every well-formed pair
\* is written, in the order ord the backend happens to serve them, and the
\* call rejects with the first rejection.  The networked stores return at
\* once on an empty list and reach the backend only after validation.
StoreMSet(t, m, pairs, ord, down) ==
  CASE t = "MemoryStore" ->
         IF down THEN Outcome(TRUE, Unavailable(t), NULL, m)
         ELSE WritePairs(t, m, pairs, Identity(Len(pairs)), 1, TRUE)
    [] t = "RedisStore" ->
         IF pairs = <<>> THEN Outcome(FALSE, "none", NULL, m)
         ELSE IF FirstPairError(pairs, 1) # "none"
              THEN Outcome(TRUE, FirstPairError(pairs, 1), NULL, m)
         ELSE IF down THEN Outcome(TRUE, Unavailable(t), NULL, m)
         ELSE WritePairs(t, m, pairs, Identity(Len(pairs)), 1, TRUE)
    [] OTHER ->
         IF pairs = <<>> THEN Outcome(FALSE, "none", NULL, m)
         ELSE IF down
              THEN Outcome(TRUE, IF FirstPairError(pairs, 1) # "none"
                                 THEN FirstPairError(pairs, 1)
                                 ELSE Unavailable(t), NULL, m)
         ELSE LET w == WritePairs(t, m, pairs, ord, 1, FALSE) IN
              Outcome(w.threw, FirstPairError(pairs, 1), NULL, w.map)

----------------------------------------------------------------------------
(* LayeredStrategy *)

getStorePriority(t) ==
  CASE t = "MemoryStore" -> 1
    [] t = "RedisStore" -> 2
    [] t = "MemcachedStore" -> 3
    [] OTHER -> 999

\* Array.prototype.sort with the comparator priority(a) - priority(b): a
\* stable sort, written as the insertion of each store, in configuration
\* order, behind the stores that do not rank after it.
RECURSIVE Insert(_, _, _)
Insert(cfg, sorted, s) ==
  IF sorted = <<>> THEN <<s>>
  ELSE IF getStorePriority(cfg[Head(sorted)]) - getStorePriority(cfg[s]) <= 0
       THEN <<Head(sorted)>> \o Insert(cfg, Tail(sorted), s)
       ELSE <<s>> \o sorted

RECURSIVE SortStores(_, _)
SortStores(cfg, n) ==
  IF n = 0 THEN <<>> ELSE Insert(cfg, SortStores(cfg, n - 1), n)

\* A constructor that keeps the stores in the order of configuration.
ConstructUnsorted(cfg) == [i \in 1..Len(cfg) |-> i]

\* constructor(stores)
Construct(cfg) == SortStores(cfg, Len(cfg))

\* A promotion that writes the first store only.
promoteFirstOnly(cfg, st, d, key, value, foundAtLevel, pdown) ==
  LET up == {st[i] : i \in 1..(IF foundAtLevel > 1 THEN 1 ELSE 0)}
      w(s) == StoreSet(cfg[s], d[s], key, value, s \in pdown) IN
  [data |-> [s \in DOMAIN d |-> IF s \in up THEN w(s).map ELSE d[s]],
   failed |-> {s \in up : w(s).threw}]

\* promoteValue: store.set(key, value) on every store above foundAtLevel, each
\* rejection caught; pdown are the stores that reject the write.
promoteValue(cfg, st, d, key, value, foundAtLevel, pdown) ==
  LET up == {st[i] : i \in 1..(foundAtLevel - 1)}
      w(s) == StoreSet(cfg[s], d[s], key, value, s \in pdown) IN
  [data |-> [s \in DOMAIN d |-> IF s \in up THEN w(s).map ELSE d[s]],
   failed |-> {s \in up : w(s).threw}]

\* A get without the try/catch around store.get: a store's error ends the
\* call.
RECURSIVE GetRethrows(_, _, _, _, _, _, _)
GetRethrows(cfg, st, d, key, down, pdown, i) ==
  IF i > Len(st)
  THEN [value |-> NULL, found |-> 0, data |-> d, promoFailed |-> {}, raised |-> FALSE]
  ELSE LET s == st[i]
           r == StoreGet(cfg[s], d[s], key, s \in down) IN
       IF r.threw
       THEN [value |-> NULL, found |-> 0, data |-> d, promoFailed |-> {}, raised |-> TRUE]
       ELSE IF r.value # NULL
       THEN LET p == promoteValue(cfg, st, d, key, r.value, i, pdown) IN
            [value |-> r.value, found |-> i, data |-> p.data,
             promoFailed |-> p.failed, raised |-> FALSE]
       ELSE GetRethrows(cfg, st, d, key, down, pdown, i + 1)

\* A get whose promotion writes are not guarded by catch: a rejected write
\* rejects the read.
RECURSIVE GetAwaitsUnguarded(_, _, _, _, _, _, _)
GetAwaitsUnguarded(cfg, st, d, key, down, pdown, i) ==
  IF i > Len(st)
  THEN [value |-> NULL, found |-> 0, data |-> d, promoFailed |-> {}, raised |-> FALSE]
  ELSE LET s == st[i]
           r == StoreGet(cfg[s], d[s], key, s \in down) IN
       IF ~r.threw /\ r.value # NULL
       THEN LET p == promoteValue(cfg, st, d, key, r.value, i, pdown) IN
            IF p.failed # {}
            THEN [value |-> NULL, found |-> i, data |-> p.data,
                  promoFailed |-> p.failed, raised |-> TRUE]
            ELSE [value |-> r.value, found |-> i, data |-> p.data,
                  promoFailed |-> p.failed, raised |-> FALSE]
       ELSE GetAwaitsUnguarded(cfg, st, d, key, down, pdown, i + 1)

\* get(key), from level i on.
RECURSIVE Get(_, _, _, _, _, _, _)
Get(cfg, st, d, key, down, pdown, i) ==
  IF i > Len(st)
  THEN [value |-> NULL, found |-> 0, data |-> d, promoFailed |-> {}, raised |-> FALSE]
  ELSE LET s == st[i]
           r == StoreGet(cfg[s], d[s], key, s \in down) IN
       IF ~r.threw /\ r.value # NULL
       THEN LET p == promoteValue(cfg, st, d, key, r.value, i, pdown) IN
            [value |-> r.value, found |-> i, data |-> p.data,
             promoFailed |-> p.failed, raised |-> FALSE]
       ELSE Get(cfg, st, d, key, down, pdown, i + 1)

\* The messages of the calls that threw, in store order.
Messages(outcomes) ==
  LET bad == SelectSeq(outcomes, LAMBDA o : o.threw) IN
  [i \in 1..Len(bad) |-> bad[i].error]

\* A set without the try/catch around store.set: the first store that
\* throws ends the loop and rejects the call.
SetAbortsOnError(cfg, st, d, key, value, down) ==
  LET w(s) == StoreSet(cfg[s], d[s], key, value, s \in down)
      bad == {i \in 1..Len(st) : w(st[i]).threw}
      reached(i) == \A j \in bad : i < j IN
  [data |-> [s \in DOMAIN d |->
               IF \E i \in 1..Len(st) : st[i] = s /\ reached(i) THEN w(s).map ELSE d[s]],
   errors |-> Messages([i \in 1..Len(st) |-> w(st[i])]),
   raised |-> bad # {}]

\* set(key, value, options)
Set(cfg, st, d, key, value, down) ==
  LET w(s) == StoreSet(cfg[s], d[s], key, value, s \in down)
      errors == Messages([i \in 1..Len(st) |-> w(st[i])]) IN
  [data |-> [s \in DOMAIN d |-> w(s).map],
   errors |-> errors,
   raised |-> Len(errors) = Len(st)]

\* A del that reports a deletion only if every store reported one.
DelNeedsEveryStore(cfg, st, d, key, down) ==
  LET w(s) == StoreDel(cfg[s], d[s], key, s \in down) IN
  [data |-> [s \in DOMAIN d |-> w(s).map],
   errors |-> Messages([i \in 1..Len(st) |-> w(st[i])]),
   deleted |-> \A i \in 1..Len(st) : ~w(st[i]).threw /\ w(st[i]).value,
   raised |-> FALSE]

\* del(key)
Del(cfg, st, d, key, down) ==
  LET w(s) == StoreDel(cfg[s], d[s], key, s \in down) IN
  [data |-> [s \in DOMAIN d |-> w(s).map],
   errors |-> Messages([i \in 1..Len(st) |-> w(st[i])]),
   deleted |-> \E i \in 1..Len(st) : ~w(st[i]).threw /\ w(st[i]).value,
   raised |-> FALSE]

\* An mset that raises as soon as one store failed.
MSetRaisesOnAnyError(cfg, st, d, pairs, ord, down) ==
  LET w(s) == StoreMSet(cfg[s], d[s], pairs, ord, s \in down)
      errors == Messages([i \in 1..Len(st) |-> w(st[i])]) IN
  [data |-> [s \in DOMAIN d |-> w(s).map],
   errors |-> errors,
   raised |-> Len(errors) > 0]

\* mset(keyValuePairs, options)
MSet(cfg, st, d, pairs, ord, down) ==
  LET w(s) == StoreMSet(cfg[s], d[s], pairs, ord, s \in down)
      errors == Messages([i \in 1..Len(st) |-> w(st[i])]) IN
  [data |-> [s \in DOMAIN d |-> w(s).map],
   errors |-> errors,
   raised |-> Len(errors) = Len(st)]

\* The elements of a set of numbers in ascending order (Object.values and
\* Object.entries of an object with integer keys).
RECURSIVE Ascending(_)
Ascending(S) ==
  IF S = {} THEN <<>>
  ELSE LET lo == CHOOSE x \in S : \A y \in S : x <= y IN
       <<lo>> \o Ascending(S \ {lo})

\* The inner loop of mget over the entries of missingKeys: acc carries the
\* results, the indexes still missing, the levels of the hits, the stores
\* and the promotion writes that failed.
RECURSIVE Collect(_, _, _, _, _, _, _, _)
Collect(cfg, st, keys, pdown, level, idx, storeResults, acc) ==
  IF idx = <<>> THEN acc
  ELSE LET index == Head(idx)
           value == storeResults[Len(storeResults) - Len(idx) + 1] IN
       IF value # NULL
       THEN LET p == promoteValue(cfg, st, acc.data, keys[index], value, level, pdown) IN
            Collect(cfg, st, keys, pdown, level, Tail(idx), storeResults,
                    [acc EXCEPT !.values[index] = value,
                                !.found[index] = level,
                                !.missing = @ \ {index},
                                !.data = p.data,
                                !.promoFailed = @ \cup p.failed])
       ELSE Collect(cfg, st, keys, pdown, level, Tail(idx), storeResults, acc)

\* mget(keys), from level storeIndex on.
RECURSIVE MGetLoop(_, _, _, _, _, _, _)
MGetLoop(cfg, st, keys, down, pdown, storeIndex, acc) ==
  IF storeIndex > Len(st) \/ acc.missing = {} THEN acc
  ELSE LET s == st[storeIndex]
           idx == Ascending(acc.missing)
           keysToFetch == [j \in 1..Len(idx) |-> keys[idx[j]]]
           r == StoreMGet(cfg[s], acc.data[s], keysToFetch, s \in down) IN
       IF r.threw
       THEN MGetLoop(cfg, st, keys, down, pdown, storeIndex + 1, acc)
       ELSE MGetLoop(cfg, st, keys, down, pdown, storeIndex + 1,
                     Collect(cfg, st, keys, pdown, storeIndex, idx, r.value, acc))

MGet(cfg, st, d, keys, down, pdown) ==
  MGetLoop(cfg, st, keys, down, pdown, 1,
           [values |-> [i \in 1..Len(keys) |-> NULL],
            found |-> [i \in 1..Len(keys) |-> 0],
            missing |-> 1..Len(keys),
            data |-> d,
            promoFailed |-> {},
            raised |-> FALSE])

----------------------------------------------------------------------------
(* CacheManager *)

\* exists(key): the first store that reports the key decides; a store that
\* throws is logged and skipped.
RECURSIVE Exists(_, _, _, _, _, _)
Exists(cfg, st, d, key, down, i) ==
  IF i > Len(st) THEN FALSE
  ELSE LET r == StoreExists(cfg[st[i]], d[st[i]], key, st[i] \in down) IN
       IF ~r.threw /\ r.value THEN TRUE
       ELSE Exists(cfg, st, d, key, down, i + 1)

----------------------------------------------------------------------------
(* Tags, dependencies and the stores' indexes *)

\* The tag the callers use and the dependency identifiers: a dependency names
\* a resource, here one of the cached keys (set('A', ..., {dependencies:
\* ['B']})) or a resource that is not cached (d3).
Tags == {"t1"}
Deps == ValidKeys \cup {"d3"}
Ids == Tags \cup Deps
Kinds == {"tag", "dependency"}

\* CacheOptions, as far as the stores index them: options.tags and
\* options.dependencies.  A call without options carries neither.
NoOptions == [tag |-> {}, dependency |-> {}]

\* What a store keeps besides the values: the tags and dependencies in each
\* entry (entry.tags, entry.dependencies), and per tag and per dependency
\* the set of keys indexed under it (tagIndex / dependencyIndex, the sets
\* tag:<t> / dep:<d> of the networked stores).
EmptyIndex ==
  [entry |-> [k \in ValidKeys |-> NoOptions],
   tag |-> [id \in Ids |-> {}],
   dependency |-> [id \in Ids |-> {}]]

\* updateIndexes(key, entry): the key joins the set of each of its tags and
\* dependencies.
updateIndexes(ix, key, options) ==
  [ix EXCEPT
     !.tag = [id \in Ids |-> IF id \in options.tag THEN @[id] \cup {key} ELSE @[id]],
     !.dependency = [id \in Ids |->
                       IF id \in options.dependency THEN @[id] \cup {key} ELSE @[id]]]

\* cleanupIndexes(key, entry) for every key of gone: each leaves the sets of
\* the tags and dependencies its entry carries, and its entry is no more.
cleanupIndexes(ix, gone) ==
  [entry |-> [k \in ValidKeys |-> IF k \in gone THEN NoOptions ELSE ix.entry[k]],
   tag |-> [id \in Ids |-> ix.tag[id] \ {k \in gone : id \in ix.entry[k].tag}],
   dependency |->
     [id \in Ids |-> ix.dependency[id] \ {k \in gone : id \in ix.entry[k].dependency}]]

\* The entries of gone are removed by a bare backend delete: the index sets
\* keep the keys.
dropEntries(ix, gone) ==
  [ix EXCEPT !.entry = [k \in ValidKeys |-> IF k \in gone THEN NoOptions ELSE @[k]]]

\* The index of a store of type t after a set(key, value, options) that
\* succeeded.  MemoryStore: cache.set disposes of the entry it replaces
\* (cleanupIndexes), then updateIndexes.  RedisStore and MemcachedStore add
\* the key to the sets of the new tags and dependencies and leave the sets of
\* the replaced entry as they are.
IndexSet(t, ix, key, options) ==
  LET cleaned == IF t = "MemoryStore" THEN cleanupIndexes(ix, {key}) ELSE ix IN
  [updateIndexes(cleaned, key, options) EXCEPT !.entry[key] = options]

\* The indexes after the promotion writes of a hit of key at level found:
\* store.set(key, value), without options, in every store above that level
\* whose write did not fail.
PromoteIndex(cfg, st, ix, key, found, failed) ==
  [s \in DOMAIN ix |->
     IF \E l \in 1..(found - 1) : st[l] = s /\ s \notin failed
     THEN IndexSet(cfg[s], ix[s], key, NoOptions)
     ELSE ix[s]]

\* What a store's invalidation reports: whether it threw, the count it
\* returned, and the store's map and index afterwards.
Invalidated(threw, count, m, ix) ==
  [threw |-> threw, error |-> IF threw THEN "store-error" ELSE "none",
   count |-> count, map |-> m, index |-> ix]

\* The map m without the keys of gone.
Without(m, gone) == [k \in DOMAIN m |-> IF k \in gone THEN NULL ELSE m[k]]

\* invalidateByTag(tag) and invalidateByDependency(dependency) of a store of
\* type t: kind says which.  MemoryStore deletes the indexed keys from the
\* cache (each deletion disposes of the entry) and counts the deletions;
\* RedisStore deletes the indexed keys and the index set in one pipeline and
\* counts the keys of the set; MemcachedStore deletes each indexed key through
\* its own del, which removes the key from the sets of the entry's tags and
\* dependencies if the entry exists, deletes the index set and counts the
\* keys of the set.
StoreInvalidateBy(kind, t, m, ix, id, down) ==
  LET keys == ix[kind][id]
      held == {k \in keys : m[k] # NULL} IN
  IF down THEN Invalidated(TRUE, 0, m, ix)
  ELSE IF keys = {} THEN Invalidated(FALSE, 0, m, ix)
  ELSE CASE t = "MemoryStore" ->
              Invalidated(FALSE, Cardinality(held), Without(m, keys),
                          [cleanupIndexes(ix, held) EXCEPT ![kind][id] = {}])
         [] t = "RedisStore" ->
              Invalidated(FALSE, Cardinality(keys), Without(m, keys),
                          [dropEntries(ix, keys) EXCEPT ![kind][id] = {}])
         [] OTHER ->
              Invalidated(FALSE, Cardinality(keys), Without(m, keys),
                          [cleanupIndexes(ix, held) EXCEPT ![kind][id] = {}])

\* The sum of the counts the stores returned, 0 for a store that threw.
RECURSIVE Total(_, _)
Total(results, i) ==
  IF i > Len(results) THEN 0
  ELSE (IF results[i].threw THEN 0 ELSE results[i].count) + Total(results, i + 1)

----------------------------------------------------------------------------
(* Glob patterns *)

\* Longest pattern and longest key the matcher is tried on.
MaxPatternLen == 3
MaxKeyLen == 3

\* The characters of a model key, one string per character.
Chars(key) ==
  CASE key = "k1" -> <<"k", "1">>
    [] key = "k2" -> <<"k", "2">>
    [] OTHER -> <<>>

\* The characters patternToRegex escapes: [.+^${}()|[\]\\].
Special == {".", "+", "^", "$", "{", "}", "(", ")", "|", "[", "]", "\\"}

\* The characters the dot of a regular expression without the s flag does
\* not match (of \n, \r, U+2028 and U+2029 the model has \n).
LineTerminators == {"\n"}

\* pattern.replace(/[.+^${}()|[\]\\]/g, '\\$&'): a backslash before every
\* special character.
RECURSIVE EscapeSpecial(_)
EscapeSpecial(p) ==
  IF p = <<>> THEN <<>>
  ELSE (IF Head(p) \in Special THEN <<"\\", Head(p)>> ELSE <<Head(p)>>)
       \o EscapeSpecial(Tail(p))

\* .replace(/\*/g, '.*')
RECURSIVE ReplaceStar(_)
ReplaceStar(p) ==
  IF p = <<>> THEN <<>>
  ELSE (IF Head(p) = "*" THEN <<".", "*">> ELSE <<Head(p)>>) \o ReplaceStar(Tail(p))

\* .replace(/\?/g, '.')
RECURSIVE ReplaceQuestion(_)
ReplaceQuestion(p) ==
  IF p = <<>> THEN <<>>
  ELSE (IF Head(p) = "?" THEN <<".">> ELSE <<Head(p)>>) \o ReplaceQuestion(Tail(p))

\* The source of the regular expression patternToRegex builds, between its
\* anchors ^ and $.
patternToRegex(pattern) == ReplaceQuestion(ReplaceStar(EscapeSpecial(pattern)))

\* new RegExp(source): the atoms of the source.  A backslash makes the next
\* character a literal, a dot matches one character, and a dot followed by
\* a star any number of them.
RECURSIVE Atoms(_)
Atoms(src) ==
  IF src = <<>> THEN <<>>
  ELSE IF Head(src) = "\\" /\ Len(src) >= 2
       THEN <<[kind |-> "literal", ch |-> src[2]]>> \o Atoms(Tail(Tail(src)))
  ELSE IF Head(src) = "." /\ Len(src) >= 2 /\ src[2] = "*"
       THEN <<[kind |-> "dotstar", ch |-> "."]>> \o Atoms(Tail(Tail(src)))
  ELSE IF Head(src) = "."
       THEN <<[kind |-> "dot", ch |-> "."]>> \o Atoms(Tail(src))
  ELSE <<[kind |-> "literal", ch |-> Head(src)]>> \o Atoms(Tail(src))

\* regex.test(key) for the anchored expression: atoms from i on match the
\* key from j on to its end.
RECURSIVE RegexTest(_, _, _, _)
RegexTest(atoms, i, key, j) ==
  IF i > Len(atoms) THEN j > Len(key)
  ELSE CASE atoms[i].kind = "literal" ->
              /\ j <= Len(key)
              /\ key[j] = atoms[i].ch
              /\ RegexTest(atoms, i + 1, key, j + 1)
         [] atoms[i].kind = "dot" ->
              /\ j <= Len(key)
              /\ key[j] \notin LineTerminators
              /\ RegexTest(atoms, i + 1, key, j + 1)
         [] OTHER ->
              \/ RegexTest(atoms, i + 1, key, j)
              \/ /\ j <= Len(key)
                 /\ key[j] \notin LineTerminators
                 /\ RegexTest(atoms, i, key, j + 1)

\* MemoryStore.keys(pattern), for one key of the cache: without a pattern
\* (an empty pattern is falsy) every key is listed, else the keys the
\* regular expression accepts.
keysMatch(pattern, key) ==
  IF pattern = <<>> THEN TRUE
  ELSE RegexTest(Atoms(patternToRegex(pattern)), 1, key, 1)

\* The glob matching of the Redis KEYS command for patterns of ordinary
\* characters, * and ?.
RECURSIVE RedisGlob(_, _)
RedisGlob(pattern, key) ==
  IF pattern = <<>> THEN key = <<>>
  ELSE IF Head(pattern) = "*"
       THEN \/ RedisGlob(Tail(pattern), key)
            \/ key # <<>> /\ RedisGlob(pattern, Tail(key))
  ELSE /\ key # <<>>
       /\ Head(pattern) = "?" \/ Head(pattern) = Head(key)
       /\ RedisGlob(Tail(pattern), Tail(key))

\* RedisStore.keys(pattern), for one key of the database: KEYS with the
\* pattern, or with * if there is none, without the keys that start with
\* tag: or dep: (no model key does).
redisKeysMatch(pattern, key) ==
  RedisGlob(IF pattern = <<>> THEN <<"*">> ELSE pattern, key)

\* invalidateByPattern(pattern) of a store of type t.  MemoryStore deletes
\* the keys its keys(pattern) lists, RedisStore the keys its keys(pattern)
\* lists, by bare deletes in a pipeline; MemcachedStore cannot enumerate
\* keys, deletes nothing and returns 0.
StoreInvalidateByPattern(t, m, ix, pattern, down) ==
  LET inMemory == {k \in DOMAIN m : m[k] # NULL /\ keysMatch(pattern, Chars(k))}
      inRedis == {k \in DOMAIN m : m[k] # NULL /\ redisKeysMatch(pattern, Chars(k))} IN
  IF down THEN Invalidated(TRUE, 0, m, ix)
  ELSE CASE t = "MemoryStore" ->
              Invalidated(FALSE, Cardinality(inMemory), Without(m, inMemory),
                          cleanupIndexes(ix, inMemory))
         [] t = "RedisStore" ->
              Invalidated(FALSE, Cardinality(inRedis), Without(m, inRedis),
                          dropEntries(ix, inRedis))
         [] OTHER -> Invalidated(FALSE, 0, m, ix)

----------------------------------------------------------------------------
(* TagInvalidator and PatternInvalidator, without the async option *)

\* An invalidator without the try/catch around each store: the failure of
\* one store rejects Promise.all and the counts of the others are lost.
FailFast(d, ix, st, r) ==
  LET results == [i \in 1..Len(st) |-> r[st[i]]] IN
  [data |-> [s \in DOMAIN d |-> r[s].map],
   index |-> [s \in DOMAIN d |-> r[s].index],
   count |-> IF \E i \in 1..Len(st) : results[i].threw THEN 0 ELSE Total(results, 1),
   errors |-> Messages(results)]

\* What an invalidation of the manager yields: the stores afterwards, the
\* sum of the stores' counts and the errors that were caught.
Fanned(d, ix, st, r) ==
  LET results == [i \in 1..Len(st) |-> r[st[i]]] IN
  [data |-> [s \in DOMAIN d |-> r[s].map],
   index |-> [s \in DOMAIN d |-> r[s].index],
   count |-> Total(results, 1),
   errors |-> Messages(results)]

\* TagInvalidator.invalidateByTag(tag)
InvalidateByTag(cfg, st, d, ix, tag, down) ==
  LET r == [s \in DOMAIN d |->
              StoreInvalidateBy("tag", cfg[s], d[s], ix[s], tag, s \in down)] IN
  Fanned(d, ix, st, r)

\* PatternInvalidator.invalidateByPattern(pattern): every store has a native
\* invalidateByPattern.
InvalidateByPattern(cfg, st, d, ix, pattern, down) ==
  LET r == [s \in DOMAIN d |->
              StoreInvalidateByPattern(cfg[s], d[s], ix[s], pattern, s \in down)] IN
  Fanned(d, ix, st, r)

----------------------------------------------------------------------------
(* DependencyInvalidator, without the async option *)

\* The deepest nesting of invalidateByDependencyInternal that is followed;
\* a call nested deeper is recorded as an overflow and cut.
MaxDepth == 6

\* A cached value that is an object with a dependencies property:
\* o13 is {dependencies: ['k1', 'd3']}.
ObjectValues == {"o13"}

\* value.dependencies as findChildDependencies reads it: the list of an
\* object that has one, nothing for any other value.
valueDependencies(value) ==
  IF value = "o13" THEN {"k1", "d3"} ELSE {}

\* The invalidator as it was before it kept a visited set: no dependency is
\* ever taken for visited, and none is remembered.
noCycleDetection(visited, dependency) == FALSE
noVisitedSet(visited, dependency) == visited

\* visited.has(dependency)
visitedHas(visited, dependency) == dependency \in visited

\* visited.add(dependency)
visitedAdd(visited, dependency) == visited \cup {dependency}

\* A top-level call as it starts: the stores, an empty visited set, nothing
\* counted, and the record of the identifiers it processes and skips and of
\* the invalidateByDependency calls it makes on stores.
Started(d, ix) ==
  [data |-> d, index |-> ix, visited |-> {}, count |-> 0,
   processed |-> <<>>, skipped |-> <<>>, overflow |-> FALSE, depth |-> 0,
   calls |-> 0]

\* The surroundings of a call: the stores, the stores that fail during it,
\* and the order in which the identifiers of a Set are iterated.
Surroundings(cfg, st, down, order) ==
  [cfg |-> cfg, st |-> st, down |-> down, order |-> order]

\* findChildDependencies(parentDependency): every store lists its keys
\* (keys('*'): MemcachedStore lists none, a store that fails is skipped),
\* gets each value, and if the value is an object whose dependencies
\* include the parent, the other members of that list are children.
findChildDependencies(env, d, parentDependency) ==
  LET listed(s) ==
        IF s \in env.down \/ env.cfg[s] = "MemcachedStore" THEN {}
        ELSE {k \in ValidKeys : d[s][k] # NULL /\ keysMatch(<<"*">>, Chars(k))}
      siblings(value) ==
        IF parentDependency \in valueDependencies(value)
        THEN valueDependencies(value) \ {parentDependency}
        ELSE {}
      inStore(s) == UNION {siblings(d[s][k]) : k \in listed(s)}
      found == UNION {inStore(env.st[i]) : i \in 1..Len(env.st)} IN
  SelectSeq(env.order, LAMBDA dep : dep \in found)

RECURSIVE invalidateByDependencyInternal(_, _, _, _, _)
RECURSIVE cascadeEach(_, _, _, _, _)

\* cascadeInvalidation(dependency, options, visited): the children are
\* invalidated one after the other, each with cascade.
cascadeInvalidation(env, run, dependency, depth) ==
  cascadeEach(env, run, findChildDependencies(env, run.data, dependency), 1, depth)

\* The loop of cascadeInvalidation, from the i-th child on.
cascadeEach(env, run, children, i, depth) ==
  IF i > Len(children) \/ run.overflow THEN run
  ELSE cascadeEach(env,
                   invalidateByDependencyInternal(env, run, children[i], TRUE, depth + 1),
                   children, i + 1, depth)

\* invalidateByDependencyInternal(dependency, options, visited): a visited
\* dependency returns 0; else it is marked, every store invalidates by it
\* (a store that throws counts 0), and with options.cascade the children
\* follow.
invalidateByDependencyInternal(env, run, dependency, cascade, depth) ==
  IF depth > MaxDepth THEN [run EXCEPT !.overflow = TRUE]
  ELSE IF visitedHas(run.visited, dependency)
       THEN [run EXCEPT !.skipped = Append(@, dependency),
                        !.depth = IF depth > @ THEN depth ELSE @]
  ELSE LET r == [s \in DOMAIN run.data |->
                   StoreInvalidateBy("dependency", env.cfg[s], run.data[s],
                                     run.index[s], dependency, s \in env.down)]
           f == Fanned(run.data, run.index, env.st, r)
           after == [run EXCEPT !.visited = visitedAdd(@, dependency),
                                !.processed = Append(@, dependency),
                                !.depth = IF depth > @ THEN depth ELSE @,
                                !.data = f.data,
                                !.index = f.index,
                                !.count = @ + f.count,
                                !.calls = @ + Len(env.st)] IN
       IF cascade THEN cascadeInvalidation(env, after, dependency, depth) ELSE after

\* invalidateByDependency(dependency, options): a fresh visited set.
InvalidateByDependency(env, d, ix, dependency, cascade) ==
  invalidateByDependencyInternal(env, Started(d, ix), dependency, cascade, 1)

\* The first loop of invalidateMultipleDependencies: every member of the
\* list without cascade, on the shared visited set.
RECURSIVE eachWithoutCascade(_, _, _, _)
eachWithoutCascade(env, run, dependencies, i) ==
  IF i > Len(dependencies) THEN run
  ELSE eachWithoutCascade(env,
                          invalidateByDependencyInternal(env, run, dependencies[i], FALSE, 1),
                          dependencies, i + 1)

\* Its second loop, under options.cascade: cascadeInvalidation for the
\* members that are not visited.
RECURSIVE cascadeUnvisited(_, _, _, _)
cascadeUnvisited(env, run, dependencies, i) ==
  IF i > Len(dependencies) \/ run.overflow THEN run
  ELSE cascadeUnvisited(env,
                        IF ~visitedHas(run.visited, dependencies[i])
                        THEN cascadeInvalidation(env, run, dependencies[i], 1)
                        ELSE run,
                        dependencies, i + 1)

\* invalidateMultipleDependencies(dependencies, options)
InvalidateMultipleDependencies(env, d, ix, dependencies, cascade) ==
  LET first == eachWithoutCascade(env, Started(d, ix), dependencies, 1) IN
  IF cascade THEN cascadeUnvisited(env, first, dependencies, 1) ELSE first

----------------------------------------------------------------------------
(* BaseStore's circuit breaker *)

\* The largest errorThreshold and timeout configured and the latest time
\* the clock reaches.
MaxThreshold == 3
MaxTimeout == 2
MaxTime == 6

\* The most calls that wait for their operation at one time.
MaxInflight == 2

\* A store constructed with circuitBreaker: {enabled: true, errorThreshold,
\* timeout}: closed, no failures; nextAttemptTime and lastFailTime are
\* undefined (0).  now is Date.now(); op, out and invoked describe the last
\* call on the store (the method, how it ended, how many wrapped operations
\* ran), streak is the number of failed calls since the last success or
\* half-open reset, and inflight the number of calls that wait for their
\* operation (await operation()).
\* manager is the circuitBreaker of the CacheManagerConfig the store was
\* made under.
NoCircuitBreaker == [enabled |-> FALSE, errorThreshold |-> 0, timeout |-> 0]

NewBreaker(errorThreshold, timeout) ==
  [enabled |-> TRUE, manager |-> NoCircuitBreaker, errorThreshold |-> errorThreshold, timeout |-> timeout,
   isOpen |-> FALSE, failures |-> 0, lastFailTime |-> 0, nextAttemptTime |-> 0,
   now |-> 1, op |-> "none", out |-> "none", invoked |-> 0, streak |-> 0,
   inflight |-> 0]

\* A breaker that lets every call through although it is open.
neverRejects(b) == FALSE

\* isOpen, and nextAttemptTime set and not reached: the call is rejected.
stillOpen(b) == b.isOpen /\ b.nextAttemptTime # 0 /\ b.now < b.nextAttemptTime

\* A call that is let through an open breaker closes it and resets the
\* counter.
admitted(b) ==
  IF b.isOpen THEN [b EXCEPT !.isOpen = FALSE, !.failures = 0, !.streak = 0] ELSE b

\* The try branch: the operation returned.
onSuccess(b) == [b EXCEPT !.failures = 0, !.out = "ok"]

\* The catch branch: the failure is counted and timed, the breaker opens
\* at the threshold, and the error is thrown again.
onFailure(b) ==
  [b EXCEPT !.failures = @ + 1,
            !.lastFailTime = b.now,
            !.isOpen = (b.failures + 1 >= b.errorThreshold) \/ @,
            !.nextAttemptTime = IF b.failures + 1 >= b.errorThreshold
                                THEN b.now + b.timeout ELSE @,
            !.out = "error"]

\* executeWithCircuitBreaker(operation) for an operation that touches the
\* breaker no further: fails says whether it throws.  A store without a
\* breaker runs the operation and keeps no count.
executeWithCircuitBreaker(b, fails) ==
  IF ~b.enabled
  THEN [b EXCEPT !.invoked = @ + 1, !.out = IF fails THEN "error" ELSE "ok"]
  ELSE IF stillOpen(b) THEN [b EXCEPT !.out = "circuit-open"]
  ELSE LET ran == [admitted(b) EXCEPT !.invoked = @ + 1] IN
       IF fails THEN onFailure(ran) ELSE onSuccess(ran)

\* The loop of MemoryStore.mget: this.get(key) for the keys from i on, each
\* under the breaker again, until one throws.  inner[i] says whether the
\* i-th get throws.
RECURSIVE eachGet(_, _, _)
eachGet(b, inner, i) ==
  IF i > Len(inner) THEN b
  ELSE LET got == executeWithCircuitBreaker(b, inner[i]) IN
       IF got.out = "ok" THEN eachGet(got, inner, i + 1) ELSE got

\* MemoryStore.mget(keys): executeWithCircuitBreaker around the loop of
\* gets; the error of a get is caught and counted by the outer call too.
mgetWithCircuitBreaker(b, inner) ==
  IF stillOpen(b) THEN [b EXCEPT !.out = "circuit-open"]
  ELSE LET ran == eachGet([admitted(b) EXCEPT !.invoked = @ + 1], inner, 1) IN
       IF ran.out \in {"error", "circuit-open"}
       THEN [onFailure(ran) EXCEPT !.out = ran.out]
       ELSE onSuccess(ran)

----------------------------------------------------------------------------
(* The state machine *)

\* All sequences over S of length at most n.
RECURSIVE SeqsUpTo(_, _)
SeqsUpTo(S, n) ==
  IF n = 0 THEN {<<>>}
  ELSE LET shorter == SeqsUpTo(S, n - 1) IN
       shorter \cup {Append(q, x) : q \in {r \in shorter : Len(r) = n - 1}, x \in S}

\* The orders in which a backend may serve n requests started together.
Orders(n) == {o \in [1..n -> 1..n] : \A i, j \in 1..n : i # j => o[i] # o[j]}

Configs == SeqsUpTo(StoreTypes, MaxStores) \ {<<>>}
KeyLists == SeqsUpTo(Keys, MaxKeys)
PairLists == SeqsUpTo(Keys \X Values, MaxKeys)

\* The record of a call: its arguments, the stores that rejected it (down),
\* and its outcome.
Call(op, keys, vals, down) ==
  [op |-> op, keys |-> keys, vals |-> vals, down |-> down,
   ret |-> <<>>, flag |-> FALSE, raised |-> FALSE, errors |-> <<>>,
   found |-> <<>>, promoFailed |-> {}]

Idle == Call("idle", <<>>, <<>>, {})

\* No key was set yet.
NoHistory == [k \in ValidKeys |-> [value |-> NULL, options |-> NoOptions]]

\* No dependency invalidation has run.
NoTrace ==
  [processed |-> <<>>, skipped |-> <<>>, overflow |-> FALSE, depth |-> 0, calls |-> 0]

\* The matcher and the breaker at rest in the runs that are not about them.
NoGlob == [pattern |-> <<>>, key |-> <<>>, matched |-> FALSE, done |-> FALSE]
NoBreaker == [enabled |-> FALSE]

\* The clock at rest in the runs in which no entry has a ttl.
NoTimers == [now |-> 0]

\* new MetricsCollector(): every counter is 0.
NoMetrics == [hits |-> 0, misses |-> 0, operations |-> 0, errors |-> 0]

\* No call is in progress.
NoCalls == <<>>

\* A manager of the stores cfg after construction: the stores are empty.
Constructed(cfg) ==
  /\ config = cfg
  /\ stores = Construct(cfg)
  /\ data = [s \in 1..Len(cfg) |-> [k \in ValidKeys |-> NULL]]
  /\ indexes = [s \in 1..Len(cfg) |-> EmptyIndex]
  /\ hist = NoHistory
  /\ trace = NoTrace
  /\ last = Idle
  /\ pending = {}
  /\ timers = NoTimers
  /\ metrics = NoMetrics
  /\ inflight = NoCalls

Init ==
  /\ \E cfg \in Configs : Constructed(cfg)
  /\ glob = NoGlob
  /\ breaker = NoBreaker

StoreIds == 1..Len(config)

\* The stores above the deepest level at which a call found a value: the
\* stores a promotion write of the call can reach.
Above(found) ==
  {stores[i] : i \in {l \in 1..Len(stores) : \E n \in 1..Len(found) : l < found[n]}}

DoGet ==
  /\ last.op = "idle"
  /\ \E key \in Keys, down \in SUBSET StoreIds :
       \E pdown \in SUBSET Above(<<Get(config, stores, data, key, down, {}, 1).found>>) :
         LET r == Get(config, stores, data, key, down, pdown, 1) IN
         /\ data' = r.data
         /\ indexes' = IF key \in ValidKeys
                        THEN PromoteIndex(config, stores, indexes, key, r.found,
                                          r.promoFailed)
                        ELSE indexes
         /\ last' = [Call("get", <<key>>, <<>>, down) EXCEPT
                       !.ret = <<r.value>>, !.found = <<r.found>>,
                       !.promoFailed = r.promoFailed, !.raised = r.raised]
  /\ UNCHANGED <<config, stores, hist, trace, glob, breaker, pending, timers, metrics, inflight>>

DoSet ==
  /\ last.op = "idle"
  /\ \E key \in Keys, value \in Values \cup {UNDEFINED}, down \in SUBSET StoreIds :
       LET r == Set(config, stores, data, key, value, down) IN
       /\ data' = r.data
       /\ last' = [Call("set", <<key>>, <<value>>, down) EXCEPT
                     !.errors = r.errors, !.raised = r.raised]
  /\ UNCHANGED <<config, stores, aux>>

DoDel ==
  /\ last.op = "idle"
  /\ \E key \in Keys, down \in SUBSET StoreIds :
       LET r == Del(config, stores, data, key, down) IN
       /\ data' = r.data
       /\ last' = [Call("del", <<key>>, <<>>, down) EXCEPT
                     !.errors = r.errors, !.flag = r.deleted, !.raised = r.raised]
  /\ UNCHANGED <<config, stores, aux>>

DoMGet ==
  /\ last.op = "idle"
  /\ \E keys \in KeyLists, down \in SUBSET StoreIds :
       \E pdown \in SUBSET Above(MGet(config, stores, data, keys, down, {}).found) :
         LET r == MGet(config, stores, data, keys, down, pdown) IN
         /\ data' = r.data
         /\ last' = [Call("mget", keys, <<>>, down) EXCEPT
                       !.ret = r.values, !.found = r.found,
                       !.promoFailed = r.promoFailed, !.raised = r.raised]
  /\ UNCHANGED <<config, stores, aux>>

DoMSet ==
  /\ last.op = "idle"
  /\ \E pairs \in PairLists, down \in SUBSET StoreIds :
       \E ord \in Orders(Len(pairs)) :
         LET r == MSet(config, stores, data, pairs, ord, down) IN
         /\ data' = r.data
         /\ last' = [Call("mset", [i \in 1..Len(pairs) |-> pairs[i][1]],
                          [i \in 1..Len(pairs) |-> pairs[i][2]], down) EXCEPT
                       !.errors = r.errors, !.raised = r.raised]
  /\ UNCHANGED <<config, stores, aux>>

\* CacheManager.exists
DoExists ==
  /\ last.op = "idle"
  /\ \E key \in Keys, down \in SUBSET StoreIds :
       last' = [Call("exists", <<key>>, <<>>, down) EXCEPT
                  !.flag = Exists(config, stores, data, key, down, 1)]
  /\ UNCHANGED <<config, stores, data, aux>>

\* The caller takes the outcome of the completed call.
Return ==
  /\ last.op # "idle"
  /\ last' = Idle
  /\ trace' = NoTrace
  /\ UNCHANGED <<config, stores, data, indexes, hist, glob, breaker, pending, timers, metrics, inflight>>

Next == DoGet \/ DoSet \/ DoDel \/ DoMGet \/ DoMSet \/ DoExists \/ Return

Spec == Init /\ [][Next]_vars

\* The three-tier manager of the layered-caching example: memory, then
\* Redis, then Memcached.
ThreeTier == <<"MemoryStore", "RedisStore", "MemcachedStore">>

InitTiers ==
  /\ Constructed(ThreeTier)
  /\ glob = NoGlob
  /\ breaker = NoBreaker

SpecTiers == InitTiers /\ [][Next]_vars

\* set(key, value, options) with options given: the fan-out of set, and in
\* every store that took the write the entry's tags and dependencies and
\* the store's indexes.
SetWithOptions(key, value, options, down) ==
  LET r == Set(config, stores, data, key, value, down)
      w(s) == StoreSet(config[s], data[s], key, value, s \in down) IN
  /\ data' = r.data
  /\ indexes' = [s \in StoreIds |->
                   IF w(s).threw THEN indexes[s]
                   ELSE IndexSet(config[s], indexes[s], key, options)]
  /\ hist' = IF r.raised THEN hist
             ELSE [hist EXCEPT ![key] = [value |-> value, options |-> options]]
  /\ last' = [Call("set", <<key>>, <<value>>, down) EXCEPT
                !.errors = r.errors, !.raised = r.raised]

\* The options the callers pass: any set of tags.
TagOptions == {[tag |-> t, dependency |-> {}] : t \in SUBSET Tags}

DoSetTagged ==
  /\ last.op = "idle"
  /\ \E key \in ValidKeys, options \in TagOptions, down \in SUBSET StoreIds :
       SetWithOptions(key, "v1", options, down)
  /\ UNCHANGED <<config, stores, trace, glob, breaker, pending, timers, metrics, inflight>>

\* get(key) of a key the stores accept, with no store failing.
DoRead ==
  /\ last.op = "idle"
  /\ \E key \in ValidKeys :
       LET r == Get(config, stores, data, key, {}, {}, 1) IN
       /\ data' = r.data
       /\ indexes' = PromoteIndex(config, stores, indexes, key, r.found, r.promoFailed)
       /\ last' = [Call("get", <<key>>, <<>>, {}) EXCEPT
                     !.ret = <<r.value>>, !.found = <<r.found>>]
  /\ UNCHANGED <<config, stores, hist, trace, glob, breaker, pending, timers, metrics, inflight>>

DoInvalidateByTag ==
  /\ last.op = "idle"
  /\ \E tag \in Tags, down \in SUBSET StoreIds :
       LET r == InvalidateByTag(config, stores, data, indexes, tag, down) IN
       /\ data' = r.data
       /\ indexes' = r.index
       /\ last' = [Call("invalidateByTag", <<tag>>, <<>>, down) EXCEPT
                     !.ret = <<r.count>>, !.errors = r.errors]
  /\ UNCHANGED <<config, stores, hist, trace, glob, breaker, pending, timers, metrics, inflight>>

\* The patterns the callers pass, as their characters; the empty pattern
\* is among them.
PatternsTried == {<<>>, <<"k", "*">>, <<"?", "1">>, <<"k", "2">>, <<"k">>}

DoInvalidateByPattern ==
  /\ last.op = "idle"
  /\ \E pattern \in PatternsTried, down \in SUBSET StoreIds :
       LET r == InvalidateByPattern(config, stores, data, indexes, pattern, down) IN
       /\ data' = r.data
       /\ indexes' = r.index
       /\ last' = [Call("invalidateByPattern", <<pattern>>, <<>>, down) EXCEPT
                     !.ret = <<r.count>>, !.errors = r.errors]
  /\ UNCHANGED <<config, stores, hist, trace, glob, breaker, pending, timers, metrics, inflight>>

\* A manager whose callers tag their entries and invalidate by tag and by
\* pattern.
NextTag == DoSetTagged \/ DoRead \/ DoInvalidateByTag \/ DoInvalidateByPattern \/ Return

\* The managers of two tiers of different types.
TwoTiers ==
  {<<"MemoryStore", "RedisStore">>, <<"MemoryStore", "MemcachedStore">>,
   <<"RedisStore", "MemcachedStore">>}

InitTag ==
  /\ \E cfg \in TwoTiers : Constructed(cfg)
  /\ glob = NoGlob
  /\ breaker = NoBreaker

SpecTag == InitTag /\ [][NextTag]_vars

\* The characters patterns and keys are made of when the matcher is tried
\* alone: a letter, the wildcards, a regex metacharacter and a line
\* terminator.
PatternChars == {"a", "*", "?", ".", "\n"}
KeyChars == {"a", "b", ".", "\n"}

\* keys(pattern) of a MemoryStore that holds one key: glob.matched says
\* whether the key is listed.
DoKeys ==
  /\ ~glob.done
  /\ glob' = [glob EXCEPT !.matched = keysMatch(glob.pattern, glob.key), !.done = TRUE]
  /\ UNCHANGED <<config, stores, data, last, indexes, hist, trace, breaker, pending, timers, metrics, inflight>>

NextGlob == DoKeys

\* A memory store with one key (validateKey: a non-empty string) and a
\* pattern to list it with.
InitGlob ==
  /\ Constructed(<<"MemoryStore">>)
  /\ breaker = NoBreaker
  /\ \E pattern \in SeqsUpTo(PatternChars, MaxPatternLen),
        key \in SeqsUpTo(KeyChars, MaxKeyLen) \ {<<>>} :
       glob = [pattern |-> pattern, key |-> key, matched |-> FALSE, done |-> FALSE]

SpecGlob == InitGlob /\ [][NextGlob]_vars

\* The dependency lists the callers pass and the values they cache.
DepOptions ==
  {[tag |-> {}, dependency |-> deps] :
     deps \in {{"k1"}, {"k2"}, {"d3"}, {"k1", "d3"}}}
DepValues == {"v1"} \cup ObjectValues

\* The lists invalidateMultipleDependencies is called with.
DepBatches == {<<"k1", "k2">>, <<"d3", "d3">>, <<"k2", "d3", "k1">>}

\* The orders in which the identifiers of a Set may be iterated.
DepOrders ==
  {<<"k1", "k2", "d3">>, <<"d3", "k2", "k1">>}

\* set(key, value, {dependencies}) with no store failing.
DoSetDependent ==
  /\ last.op = "idle"
  /\ \E key \in ValidKeys, value \in DepValues, options \in DepOptions :
       SetWithOptions(key, value, options, {})
  /\ UNCHANGED <<config, stores, trace, glob, breaker, pending, timers, metrics, inflight>>

\* What a dependency invalidation leaves: the stores, the count returned
\* and the record of the identifiers processed and skipped.
Cascaded(op, dependencies, cascade, down, run) ==
  /\ data' = run.data
  /\ indexes' = run.index
  /\ trace' = [processed |-> run.processed, skipped |-> run.skipped,
               overflow |-> run.overflow, depth |-> run.depth, calls |-> run.calls]
  /\ last' = [Call(op, dependencies, <<>>, down) EXCEPT
                !.ret = <<run.count>>, !.flag = cascade]

DoInvalidateByDependency ==
  /\ last.op = "idle"
  /\ \E dependency \in Deps, cascade \in BOOLEAN, down \in SUBSET StoreIds,
        order \in DepOrders :
       Cascaded("invalidateByDependency", <<dependency>>, cascade, down,
                InvalidateByDependency(Surroundings(config, stores, down, order),
                                       data, indexes, dependency, cascade))
  /\ UNCHANGED <<config, stores, hist, glob, breaker, pending, timers, metrics, inflight>>

DoInvalidateMultipleDependencies ==
  /\ last.op = "idle"
  /\ \E dependencies \in DepBatches, cascade \in BOOLEAN, down \in SUBSET StoreIds,
        order \in DepOrders :
       Cascaded("invalidateMultipleDependencies", dependencies, cascade, down,
                InvalidateMultipleDependencies(Surroundings(config, stores, down, order),
                                               data, indexes, dependencies, cascade))
  /\ UNCHANGED <<config, stores, hist, glob, breaker, pending, timers, metrics, inflight>>

NextDep ==
  \/ DoSetDependent
  \/ DoInvalidateByDependency
  \/ DoInvalidateMultipleDependencies
  \/ Return

\* The managers of one store, of each type.
OneTier == {<<"MemoryStore">>, <<"RedisStore">>, <<"MemcachedStore">>}

InitDep ==
  /\ \E cfg \in OneTier : Constructed(cfg)
  /\ glob = NoGlob
  /\ breaker = NoBreaker

SpecDep == InitDep /\ [][NextDep]_vars

\* A call on the store begins: nothing of the previous call is kept but
\* the breaker's state.
Begun(b) == [b EXCEPT !.op = "none", !.out = "none", !.invoked = 0]

\* The number of failed calls in a row after a call that ended as out,
\* counted up to one more than the largest threshold.
Streak(b, out) ==
  CASE out = "ok" -> 0
    [] out = "error" -> IF b.streak > MaxThreshold THEN b.streak ELSE b.streak + 1
    [] OTHER -> b.streak

\* Date.now() advances.
Tick ==
  /\ breaker.now < MaxTime
  /\ breaker' = [Begun(breaker) EXCEPT !.now = @ + 1]
  /\ UNCHANGED <<config, stores, data, last, indexes, hist, trace, glob, pending, timers, metrics, inflight>>

\* store.get(key): the key is valid or it is not.
CallGet ==
  /\ \E fails \in BOOLEAN :
       LET b == executeWithCircuitBreaker(Begun(breaker), fails) IN
       breaker' = [b EXCEPT !.op = "get", !.streak = Streak(b, b.out)]
  /\ UNCHANGED <<config, stores, data, last, indexes, hist, trace, glob, pending, timers, metrics, inflight>>

\* store.mget(keys) of one or two keys, each valid or not.
CallMGet ==
  /\ \E inner \in SeqsUpTo(BOOLEAN, MaxKeys) \ {<<>>} :
       LET b == mgetWithCircuitBreaker(Begun(breaker), inner) IN
       breaker' = [b EXCEPT !.op = "mget", !.streak = Streak(b, b.out)]
  /\ UNCHANGED <<config, stores, data, last, indexes, hist, trace, glob, pending, timers, metrics, inflight>>

NextBreaker == Tick \/ CallGet \/ CallMGet

\* One MemoryStore with its circuit breaker enabled.
InitBreaker ==
  /\ Constructed(<<"MemoryStore">>)
  /\ glob = NoGlob
  /\ \E errorThreshold \in 1..MaxThreshold, timeout \in 1..MaxTimeout :
       breaker = NewBreaker(errorThreshold, timeout)

SpecBreaker == InitBreaker /\ [][NextBreaker]_vars

\* Calls on one store that overlap: executeWithCircuitBreaker runs to its
\* await, and goes on after it when the operation has settled, with the
\* steps of other calls in between.

\* A call enters: it is rejected, or let through to wait for its operation.
Enter ==
  /\ breaker.inflight < MaxInflight
  /\ LET b == Begun(breaker) IN
     breaker' = IF stillOpen(b)
                THEN [b EXCEPT !.op = "enter", !.out = "circuit-open"]
                ELSE [admitted(b) EXCEPT !.op = "enter", !.out = "pending",
                                         !.invoked = 1, !.inflight = @ + 1]
  /\ UNCHANGED <<config, stores, data, last, indexes, hist, trace, glob, pending, timers, metrics, inflight>>

\* The operation of a waiting call returns: the try branch goes on.
Resolve ==
  /\ breaker.inflight > 0
  /\ breaker' = [onSuccess(Begun(breaker)) EXCEPT !.op = "resolve", !.inflight = @ - 1]
  /\ UNCHANGED <<config, stores, data, last, indexes, hist, trace, glob, pending, timers, metrics, inflight>>

\* The operation of a waiting call throws: the catch branch runs.
Reject ==
  /\ breaker.inflight > 0
  /\ breaker' = [onFailure(Begun(breaker)) EXCEPT !.op = "reject", !.inflight = @ - 1]
  /\ UNCHANGED <<config, stores, data, last, indexes, hist, trace, glob, pending, timers, metrics, inflight>>

NextInflight == Tick \/ Enter \/ Resolve \/ Reject

SpecInflight == InitBreaker /\ [][NextInflight]_vars

\* The constructor of BaseStore, given the circuitBreaker of the
\* configuration object it receives: a breaker if that is enabled, none
\* otherwise.
BaseStoreConstructor(circuitBreaker) ==
  IF circuitBreaker.enabled
  THEN NewBreaker(circuitBreaker.errorThreshold, circuitBreaker.timeout)
  ELSE [NewBreaker(0, 0) EXCEPT !.enabled = FALSE]

\* The circuitBreaker settings a configuration may carry.
CircuitBreakers ==
  {[enabled |-> TRUE, errorThreshold |-> n, timeout |-> t] :
     n \in 1..MaxThreshold, t \in 1..MaxTimeout}

\* CacheManager's initializeStores(config.stores) for a configuration of
\* one store: the store is constructed from its own entry of config.stores,
\* the circuitBreaker of the manager's configuration is not handed on.
initializeStores(managerConfig) ==
  [BaseStoreConstructor(managerConfig.stores[1].circuitBreaker) EXCEPT
     !.manager = managerConfig.circuitBreaker]

\* The configurations: a manager with or without circuitBreaker, over one
\* store whose own entry carries the same setting or none.
ManagerConfigs ==
  {[stores |-> <<[type |-> "memory", circuitBreaker |-> own]>>, circuitBreaker |-> cb] :
     cb \in CircuitBreakers \cup {NoCircuitBreaker},
     own \in CircuitBreakers \cup {NoCircuitBreaker}}

InitManaged ==
  /\ Constructed(<<"MemoryStore">>)
  /\ glob = NoGlob
  /\ \E managerConfig \in ManagerConfigs :
       /\ managerConfig.stores[1].circuitBreaker
            \in {NoCircuitBreaker, managerConfig.circuitBreaker}
       /\ breaker = initializeStores(managerConfig)

NextManaged == Tick \/ CallGet

SpecManaged == InitManaged /\ [][NextManaged]_vars

\* The options of the callers that use tags and dependencies together.
LabelOptions ==
  {[tag |-> {"t1"}, dependency |-> {}], [tag |-> {}, dependency |-> {"d3"}],
   [tag |-> {"t1"}, dependency |-> {"d3"}]}

\* set(key, value, options) with no store failing.
DoSetLabelled ==
  /\ last.op = "idle"
  /\ \E key \in ValidKeys, options \in LabelOptions :
       SetWithOptions(key, "v1", options, {})
  /\ UNCHANGED <<config, stores, trace, glob, breaker, pending, timers, metrics, inflight>>

\* A manager of two tiers whose callers invalidate by tag, by pattern and
\* by dependency, with stores that fail.
NextInvalidate ==
  \/ DoSetLabelled
  \/ DoInvalidateByTag
  \/ DoInvalidateByPattern
  \/ DoInvalidateByDependency
  \/ Return

\* Memory over Redis, and Redis over Memcached.
InitInvalidate ==
  /\ \E cfg \in {<<"MemoryStore", "RedisStore">>, <<"RedisStore", "MemcachedStore">>} :
       Constructed(cfg)
  /\ glob = NoGlob
  /\ breaker = NoBreaker

SpecInvalidate == InitInvalidate /\ [][NextInvalidate]_vars

----------------------------------------------------------------------------
(* The async option of the invalidators *)

\* The async calls whose store invalidations may be outstanding at once.
MaxAsync == 1

\* The invalidation one store was asked for: by tag or by dependency (id),
\* or by pattern.
Job(call, s, kind, id, pattern) ==
  [call |-> call, store |-> s, kind |-> kind, id |-> id, pattern |-> pattern]

\* The store's invalidation a job stands for.
StoreInvalidation(job, t, m, ix, down) ==
  IF job.kind = "pattern"
  THEN StoreInvalidateByPattern(t, m, ix, job.pattern, down)
  ELSE StoreInvalidateBy(job.kind, t, m, ix, job.id, down)

\* MemoryStore.invalidateByTag and invalidateByDependency delete before
\* their first await: the deletions are done when the call of the store
\* returns its promise.
Synchronous(t, kind) == t = "MemoryStore" /\ kind # "pattern"

\* MemoryStore.invalidateByPattern awaits keys(pattern), which needs no
\* input or output: it completes within the microtasks that also carry the
\* manager's answer to its caller, before it or after it.
InProcess(t) == t = "MemoryStore"

\* A caller that is answered only when every store has answered.
Awaited(async, count) == count

\* if (options?.async) { ...; return 0; }, and else the sum of the counts.
Returned(async, count) == IF async THEN 0 ELSE count

\* The identifiers and patterns the callers of the invalidators pass.
Targets ==
  {<<"tag", "t1", <<>>>>, <<"dependency", "d3", <<>>>>,
   <<"pattern", "", <<"k", "*">>>>, <<"pattern", "", <<"k", "2">>>>}

\* The calls that have store invalidations outstanding.
Outstanding == {job.call : job \in pending}

\* invalidateByTag, invalidateByPattern and invalidateByDependency of the
\* manager with options {async}: every store is asked at once; without
\* async the call awaits all of them, with async it returns 0 and the
\* stores that have not answered answer later.
Invalidate(kind, id, pattern, async, down, early) ==
  LET call == CHOOSE n \in 1..MaxAsync + 1 :
                n \notin Outstanding /\ \A m \in 1..n - 1 : m \in Outstanding
      done == IF async THEN early ELSE StoreIds
      job(s) == Job(call, s, kind, id, pattern)
      r == [s \in StoreIds |->
              IF s \in done
              THEN StoreInvalidation(job(s), config[s], data[s], indexes[s], s \in down)
              ELSE Invalidated(FALSE, 0, data[s], indexes[s])]
      f == Fanned(data, indexes, stores, r) IN
  /\ data' = f.data
  /\ indexes' = f.index
  /\ pending' = pending \cup {job(s) : s \in StoreIds \ done}
  /\ last' = [Call(IF kind = "tag" THEN "invalidateByTag"
                   ELSE IF kind = "pattern" THEN "invalidateByPattern"
                   ELSE "invalidateByDependency",
                   IF kind = "pattern" THEN <<pattern>> ELSE <<id>>, <<>>,
                   down \cap done) EXCEPT
                !.ret = <<Returned(async, f.count)>>, !.flag = async,
                !.errors = f.errors]

DoInvalidateWithOptions ==
  /\ last.op = "idle"
  /\ Cardinality(Outstanding) < MaxAsync
  /\ \E target \in Targets, async \in BOOLEAN, down \in SUBSET StoreIds,
        early \in SUBSET {s \in StoreIds : InProcess(config[s])} :
       /\ \A s \in StoreIds : Synchronous(config[s], target[1]) => s \in early
       /\ Invalidate(target[1], target[2], target[3], async, down, early)
  /\ UNCHANGED <<config, stores, hist, trace, glob, breaker, timers, metrics, inflight>>

\* A store answers an invalidation of an async call, or fails it: the
\* invalidator catches the failure and nobody reads the count.
Settle ==
  /\ \E job \in pending, fails \in BOOLEAN :
       LET s == job.store
           r == StoreInvalidation(job, config[s], data[s], indexes[s], fails) IN
       /\ data' = [data EXCEPT ![s] = r.map]
       /\ indexes' = [indexes EXCEPT ![s] = r.index]
       /\ pending' = pending \ {job}
  /\ UNCHANGED <<config, stores, last, hist, trace, glob, breaker, timers, metrics, inflight>>

\* A manager of two tiers whose callers label their entries and invalidate
\* them with and without the async option.
NextAsync == DoSetLabelled \/ DoInvalidateWithOptions \/ Settle \/ Return

InitAsync ==
  /\ \E cfg \in {<<"MemoryStore", "RedisStore">>, <<"RedisStore", "MemcachedStore">>} :
       Constructed(cfg)
  /\ glob = NoGlob
  /\ breaker = NoBreaker

SpecAsync == InitAsync /\ [][NextAsync]_vars

----------------------------------------------------------------------------
(* clear *)

\* A store whose clear drops the entries and keeps the index buckets.
clearEntriesOnly(t, m, ix, down) ==
  IF down THEN Invalidated(TRUE, 0, m, ix)
  ELSE Invalidated(FALSE, 0, [k \in DOMAIN m |-> NULL], ix)

\* clear() of a store: MemoryStore clears the cache, the tag index and the
\* dependency index; RedisStore flushes the database and MemcachedStore the
\* server, which hold the entries and the tag and dependency sets.
StoreClear(t, m, ix, down) ==
  IF down THEN Invalidated(TRUE, 0, m, ix)
  ELSE Invalidated(FALSE, 0, [k \in DOMAIN m |-> NULL], EmptyIndex)

\* LayeredStrategy.clear(): every store is cleared, the error of a store is
\* logged and dropped.
Clear(cfg, st, d, ix, down) ==
  LET r == [s \in DOMAIN d |-> StoreClear(cfg[s], d[s], ix[s], s \in down)] IN
  Fanned(d, ix, st, r)

\* CacheManager.clear()
DoClear ==
  /\ last.op = "idle"
  /\ \E down \in SUBSET StoreIds :
       LET r == Clear(config, stores, data, indexes, down) IN
       /\ data' = r.data
       /\ indexes' = r.index
       /\ last' = [Call("clear", <<>>, <<>>, down) EXCEPT !.errors = r.errors]
  /\ UNCHANGED <<config, stores, hist, trace, glob, breaker, pending, timers, metrics, inflight>>

\* A manager whose callers label their entries, read them and clear the
\* cache, with stores that fail to clear.
NextClear == DoSetLabelled \/ DoRead \/ DoClear \/ Return

InitClear ==
  /\ \E cfg \in TwoTiers \cup {ThreeTier} : Constructed(cfg)
  /\ glob = NoGlob
  /\ breaker = NoBreaker

SpecClear == InitClear /\ [][NextClear]_vars

----------------------------------------------------------------------------
(* Validation *)

\* The keys the callers try: the well-formed keys, the empty string and a
\* key that is not a string.
KeysTried == Keys \cup {NotAString}

\* The options the callers try: none, or a tag and a dependency.
OptionsTried == {NoOptions, [tag |-> {"t1"}, dependency |-> {"d3"}]}

\* set(key, value, options) with any key and any value, undefined among
\* them, with and without options, and with stores that fail.
DoSetAny ==
  /\ last.op = "idle"
  /\ \E key \in KeysTried, value \in {"v1", UNDEFINED},
        options \in OptionsTried, down \in SUBSET StoreIds :
       LET r == Set(config, stores, data, key, value, down)
           w(s) == StoreSet(config[s], data[s], key, value, s \in down) IN
       /\ data' = r.data
       /\ indexes' = [s \in StoreIds |->
                        IF w(s).threw THEN indexes[s]
                        ELSE IndexSet(config[s], indexes[s], key, options)]
       /\ hist' = IF r.raised \/ key \notin ValidKeys THEN hist
                  ELSE [hist EXCEPT ![key] = [value |-> value, options |-> options]]
       /\ last' = [Call("set", <<key>>, <<value>>, down) EXCEPT
                     !.errors = r.errors, !.raised = r.raised]
  /\ UNCHANGED <<config, stores, trace, glob, breaker, pending, timers, metrics, inflight>>

\* A manager whose callers pass keys and values of every kind.
NextValidate == DoSetAny \/ DoRead \/ Return

InitValidate ==
  /\ \E cfg \in {<<"MemoryStore", "RedisStore">>, <<"RedisStore", "MemcachedStore">>} :
       Constructed(cfg)
  /\ glob = NoGlob
  /\ breaker = NoBreaker

SpecValidate == InitValidate /\ [][NextValidate]_vars

----------------------------------------------------------------------------
(* MetricsCollector and the manager's metered calls *)

\* The calls a run counts before it stops.
MaxOperations == 4

\* MetricsCollector.recordHit and recordMiss
recordHit(m) == [m EXCEPT !.hits = @ + 1]
recordMiss(m) == [m EXCEPT !.misses = @ + 1]

\* A wrapper that counts only the operations that succeed.
countsSuccessOnly(m, failed) ==
  IF failed THEN [m EXCEPT !.errors = @ + 1] ELSE [m EXCEPT !.operations = @ + 1]

\* MetricsCollector.withMetrics(operation), after the operation: the
\* operation is recorded, and the error if it threw.
withMetrics(m, failed) ==
  [m EXCEPT !.operations = @ + 1, !.errors = IF failed THEN @ + 1 ELSE @]

\* CacheManager.get(key) around strategy.get, which returned value.
managerGet(m, value) ==
  withMetrics(IF value # NULL THEN recordHit(m) ELSE recordMiss(m), FALSE)

\* The gets of CacheManager.warmup(keys), each a CacheManager.get of its
\* own, in the order of keys: the stores and the counters afterwards.
RECURSIVE warmupGets(_, _, _, _, _, _)
warmupGets(cfg, st, d, m, keys, i) ==
  IF i > Len(keys) THEN [data |-> d, metrics |-> m]
  ELSE LET r == Get(cfg, st, d, keys[i], {}, {}, 1) IN
       warmupGets(cfg, st, r.data, managerGet(m, r.value), keys, i + 1)

\* CacheManager.get
MeteredGet ==
  /\ last.op = "idle"
  /\ metrics.operations < MaxOperations
  /\ \E key \in Keys, down \in SUBSET StoreIds :
       LET r == Get(config, stores, data, key, down, {}, 1) IN
       /\ data' = r.data
       /\ metrics' = managerGet(metrics, r.value)
       /\ last' = [Call("get", <<key>>, <<>>, down) EXCEPT
                     !.ret = <<r.value>>, !.found = <<r.found>>, !.raised = r.raised]
  /\ UNCHANGED <<config, stores, indexes, hist, trace, glob, breaker, pending, timers, inflight>>

\* CacheManager.set
MeteredSet ==
  /\ last.op = "idle"
  /\ metrics.operations < MaxOperations
  /\ \E key \in Keys, down \in SUBSET StoreIds :
       LET r == Set(config, stores, data, key, "v1", down) IN
       /\ data' = r.data
       /\ metrics' = withMetrics(metrics, r.raised)
       /\ last' = [Call("set", <<key>>, <<"v1">>, down) EXCEPT
                     !.errors = r.errors, !.raised = r.raised]
  /\ UNCHANGED <<config, stores, indexes, hist, trace, glob, breaker, pending, timers, inflight>>

\* CacheManager.warmup(keys): withMetrics around the gets of the keys.
MeteredWarmup ==
  /\ last.op = "idle"
  /\ metrics.operations < MaxOperations
  /\ \E keys \in KeyLists :
       LET r == warmupGets(config, stores, data, metrics, keys, 1) IN
       /\ data' = r.data
       /\ metrics' = withMetrics(r.metrics, FALSE)
       /\ last' = Call("warmup", keys, <<>>, {})
  /\ UNCHANGED <<config, stores, indexes, hist, trace, glob, breaker, pending, timers, inflight>>

\* A manager whose callers read, write and warm up the cache.
NextMetered == MeteredGet \/ MeteredSet \/ MeteredWarmup \/ Return

InitMetered ==
  /\ Constructed(<<"MemoryStore", "RedisStore">>)
  /\ glob = NoGlob
  /\ breaker = NoBreaker

SpecMetered == InitMetered /\ [][NextMetered]_vars

----------------------------------------------------------------------------
(* Expiry *)

\* The seconds the clock runs, the ttl options the callers pass (0 stands
\* for a call without options.ttl, which the stores treat alike) and the
\* default ttl a memory store may be configured with.
MaxClock == 4
MaxTtl == 2
Ttls == 0..MaxTtl
MemoryTtls == {0, MaxTtl}

\* const ttl = options?.ttl || 3600 of RedisStore and MemcachedStore.
DefaultLifetime == 3600

\* The key the callers of the timed runs use.
TimedKeys == {"k1"}

\* What a store keeps of an entry's times: entry.createdAt and entry.ttl,
\* when the backend started to count the entry's age and the lifetime it
\* was given (0: none).
NoTimer == [createdAt |-> 0, ttl |-> 0, start |-> 0, life |-> 0]

\* The lifetime a write with options.ttl gives the entry in the backend:
\* the LRU cache takes options.ttl and else its default (config.ttl), Redis
\* and Memcached take options.ttl || 3600.
Lifetime(t, ttl, memoryTtl) ==
  IF ttl # 0 THEN ttl
  ELSE IF t = "MemoryStore" THEN memoryTtl ELSE DefaultLifetime

\* The times of an entry written now.
Stamped(t, now, ttl, memoryTtl) ==
  [createdAt |-> now, ttl |-> ttl, start |-> now, life |-> Lifetime(t, ttl, memoryTtl)]

\* BaseStore.isExpired(createdAt, ttl)
isExpired(now, createdAt, ttl) == ttl # 0 /\ now - createdAt > ttl

\* The backend has dropped the entry: the LRU cache when the entry's age
\* exceeds its ttl, Redis and Memcached when the lifetime has run out.
Stale(t, now, e) ==
  IF t = "MemoryStore" THEN e.life # 0 /\ now - e.start > e.life
  ELSE now - e.start >= e.life

\* What a store's get does to the times of the entry it returns: the LRU
\* cache restarts the entry's age (updateAgeOnGet), RedisStore writes the
\* entry back with EX entry.ttl || 3600, MemcachedStore changes nothing.
getTouches(t, now, e) ==
  CASE t = "MemoryStore" -> [e EXCEPT !.start = now]
    [] t = "RedisStore" ->
         [e EXCEPT !.start = now,
                   !.life = IF e.ttl # 0 THEN e.ttl ELSE DefaultLifetime]
    [] OTHER -> e

\* What a store's exists does to the times of an entry it finds: the LRU
\* cache restarts the entry's age (updateAgeOnHas).
existsTouches(t, now, e) ==
  IF t = "MemoryStore" THEN [e EXCEPT !.start = now] ELSE e

\* The entries the backends still hold at the time tm.now.
Live(cfg, d, tm) ==
  [s \in DOMAIN d |->
     [k \in DOMAIN d[s] |->
        IF d[s][k] # NULL /\ ~Stale(cfg[s], tm.now, tm.entry[s][k])
        THEN d[s][k] ELSE NULL]]

\* The entries a store's get returns: those the backend holds and
\* isExpired does not reject.
Gettable(cfg, d, tm) ==
  [s \in DOMAIN d |->
     [k \in DOMAIN d[s] |->
        IF isExpired(tm.now, tm.entry[s][k].createdAt, tm.entry[s][k].ttl)
        THEN NULL ELSE d[s][k]]]

\* The entries a store's exists finds: MemoryStore asks cache.has and
\* RedisStore EXISTS, which do not look into the entry; MemcachedStore asks
\* its own get.
Findable(cfg, d, tm) ==
  [s \in DOMAIN d |->
     IF cfg[s] = "MemcachedStore" THEN Gettable(cfg, d, tm)[s] ELSE d[s]]

\* The level of store s in the strategy.
LevelOf(s) == CHOOSE i \in 1..Len(stores) : stores[i] = s

\* The timers of a manager whose memory stores have the default ttl
\* memoryTtl, before any write.
NewTimers(memoryTtl) ==
  [now |-> 0, memoryTtl |-> memoryTtl,
   entry |-> [s \in StoreIds |-> [k \in ValidKeys |-> NoTimer]],
   written |-> [k \in ValidKeys |-> [at |-> 0, ttl |-> 0, stored |-> FALSE, everywhere |-> FALSE]]]

\* set(key, value, {ttl})
DoSetTimed ==
  /\ last.op = "idle"
  /\ \E key \in TimedKeys, ttl \in Ttls, down \in SUBSET StoreIds :
       LET r == Set(config, stores, data, key, "v1", down) IN
       /\ data' = r.data
       /\ timers' =
            [timers EXCEPT
               !.entry = [s \in StoreIds |->
                            IF s \in down THEN @[s]
                            ELSE [@[s] EXCEPT ![key] =
                                    Stamped(config[s], timers.now, ttl,
                                            timers.memoryTtl)]],
               !.written = IF r.raised THEN @
                           ELSE [@ EXCEPT ![key] =
                                   [at |-> timers.now, ttl |-> ttl, stored |-> TRUE,
                                    everywhere |-> down = {}]]]
       /\ last' = [Call("set", <<key>>, <<"v1">>, down) EXCEPT
                     !.errors = r.errors, !.raised = r.raised]
  /\ UNCHANGED <<config, stores, indexes, hist, trace, glob, breaker, pending, metrics, inflight>>

\* get(key): the stores are read in order; a store that finds its entry
\* expired deletes it, the store that serves the read touches its entry,
\* and the stores above it are written by the promotion, without options.
DoGetTimed ==
  /\ last.op = "idle"
  /\ \E key \in TimedKeys, down \in SUBSET StoreIds :
       LET view == Gettable(config, data, timers) IN
       \E pdown \in SUBSET Above(<<Get(config, stores, view, key, down, {}, 1).found>>) :
         LET r == Get(config, stores, view, key, down, pdown, 1)
             depth == IF r.found = 0 THEN Len(stores) ELSE r.found
             promoted(s) == r.found # 0 /\ LevelOf(s) < r.found /\ s \notin pdown
             read(s) == s \notin down /\ LevelOf(s) <= depth IN
         /\ data' = [s \in StoreIds |->
                       IF promoted(s) \/ read(s) THEN r.data[s] ELSE data[s]]
         /\ timers' =
              [timers EXCEPT
                 !.entry = [s \in StoreIds |->
                              IF promoted(s)
                              THEN [@[s] EXCEPT ![key] =
                                      Stamped(config[s], timers.now, 0,
                                              timers.memoryTtl)]
                              ELSE IF read(s) /\ LevelOf(s) = r.found
                              THEN [@[s] EXCEPT ![key] =
                                      getTouches(config[s], timers.now, @)]
                              ELSE IF read(s)
                              THEN [@[s] EXCEPT ![key] = NoTimer]
                              ELSE @[s]]]
         /\ last' = [Call("get", <<key>>, <<>>, down) EXCEPT
                       !.ret = <<r.value>>, !.found = <<r.found>>,
                       !.promoFailed = r.promoFailed, !.raised = r.raised]
  /\ UNCHANGED <<config, stores, indexes, hist, trace, glob, breaker, pending, metrics, inflight>>

\* exists(key): the stores are asked in order until one has the key.
DoExistsTimed ==
  /\ last.op = "idle"
  /\ \E key \in TimedKeys, down \in SUBSET StoreIds :
       LET view == Findable(config, data, timers)
           has(s) == s \notin down /\ view[s][key] # NULL
           first == IF \E s \in StoreIds : has(s)
                    THEN CHOOSE i \in 1..Len(stores) :
                           has(stores[i]) /\ \A j \in 1..i - 1 : ~has(stores[j])
                    ELSE Len(stores)
           asked(s) == s \notin down /\ LevelOf(s) <= first IN
       /\ data' = [s \in StoreIds |->
                     IF asked(s) /\ config[s] = "MemcachedStore" THEN view[s]
                     ELSE data[s]]
       /\ timers' =
            [timers EXCEPT
               !.entry = [s \in StoreIds |->
                            IF asked(s) /\ view[s][key] = NULL /\ data[s][key] # NULL
                            THEN [@[s] EXCEPT ![key] = NoTimer]
                            ELSE IF asked(s) /\ view[s][key] # NULL
                            THEN [@[s] EXCEPT ![key] =
                                    existsTouches(config[s], timers.now, @)]
                            ELSE @[s]]]
       /\ last' = [Call("exists", <<key>>, <<>>, down) EXCEPT
                     !.flag = Exists(config, stores, view, key, down, 1)]
  /\ UNCHANGED <<config, stores, indexes, hist, trace, glob, breaker, pending, metrics, inflight>>

\* A second passes: the backends drop the entries whose lifetime is over.
Advance ==
  /\ timers.now < MaxClock
  /\ LET later == [timers EXCEPT !.now = @ + 1]
         live == Live(config, data, later) IN
     /\ data' = live
     /\ timers' = [later EXCEPT
                     !.entry = [s \in StoreIds |->
                                  [k \in ValidKeys |->
                                     IF live[s][k] = NULL THEN NoTimer ELSE @[s][k]]]]
  /\ UNCHANGED <<config, stores, last, indexes, hist, trace, glob, breaker, pending, metrics, inflight>>

\* A manager whose callers set entries with a ttl and read them as time
\* passes, with stores that fail.
NextTimed == DoSetTimed \/ DoGetTimed \/ DoExistsTimed \/ Advance \/ Return

InitTimed ==
  /\ \E cfg \in {<<"MemoryStore", "RedisStore">>, <<"RedisStore", "MemcachedStore">>} :
       /\ config = cfg
       /\ stores = Construct(cfg)
       /\ data = [s \in 1..Len(cfg) |-> [k \in ValidKeys |-> NULL]]
       /\ indexes = [s \in 1..Len(cfg) |-> EmptyIndex]
  /\ hist = NoHistory
  /\ trace = NoTrace
  /\ last = Idle
  /\ pending = {}
  /\ metrics = NoMetrics
  /\ inflight = NoCalls
  /\ glob = NoGlob
  /\ breaker = NoBreaker
  /\ \E memoryTtl \in MemoryTtls : timers = NewTimers(memoryTtl)

SpecTimed == InitTimed /\ [][NextTimed]_vars

----------------------------------------------------------------------------
(* MemoryStore with its LRU cache: capacity, recency, ttl and the indexes *)

\* config.max of the memory store.
MaxEntries == 1

\* The timers of a memory store by itself: timers.recency lists the keys
\* the LRU cache holds, the least recently used first.
MemoryTimers ==
  [now |-> 0, memoryTtl |-> 0,
   entry |-> [s \in {1} |-> [k \in ValidKeys |-> NoTimer]],
   recency |-> <<>>]

\* The LRU cache holds an entry for k (which may be stale), and holds one
\* that is not stale.
Present(k) == data[1][k] # NULL
Fresh(k) == Present(k) /\ ~Stale("MemoryStore", timers.now, timers.entry[1][k])

\* A cache whose dispose hook is not installed: entries leave, the indexes
\* stay.
withoutDispose(ix, gone) == dropEntries(ix, gone)

\* options.dispose: cleanupIndexes(key, value) for every entry that leaves
\* the cache.
dispose(ix, gone) == cleanupIndexes(ix, gone)

\* The store after the entries of gone have left the cache (cache.delete,
\* eviction, cache.clear): map, index and timers.
Disposed(m, ix, tm, gone) ==
  [map |-> Without(m, gone),
   index |-> dispose(ix, gone),
   timers |-> [tm EXCEPT
                 !.entry[1] = [k \in ValidKeys |-> IF k \in gone THEN NoTimer ELSE @[k]],
                 !.recency = SelectSeq(@, LAMBDA k : k \notin gone)]]

\* The store takes the record r.
Becomes(r) ==
  /\ data' = [data EXCEPT ![1] = r.map]
  /\ indexes' = [indexes EXCEPT ![1] = r.index]
  /\ timers' = r.timers

\* MemoryStore.set(key, value, {ttl, tags, dependencies}): cache.set
\* disposes of the entry it replaces, or of the least recently used entry
\* if the cache is full; then updateIndexes.
MemSet ==
  \E key \in ValidKeys, options \in OptionsTried, ttl \in {0, 1} :
    LET out == IF Present(key) THEN {key}
               ELSE IF Len(timers.recency) >= MaxEntries THEN {timers.recency[1]}
               ELSE {}
        d == Disposed(data[1], indexes[1], timers, out \cup {key}) IN
    /\ Becomes([map |-> [d.map EXCEPT ![key] = "v1"],
                index |-> [updateIndexes(d.index, key, options) EXCEPT
                             !.entry[key] = options],
                timers |-> [d.timers EXCEPT
                              !.entry[1][key] =
                                 Stamped("MemoryStore", timers.now, ttl, 0),
                              !.recency = Append(@, key)]])
    /\ UNCHANGED <<config, stores, last, hist, trace, glob, breaker, pending, metrics, inflight>>

\* MemoryStore.get(key): cache.get drops a stale entry; an entry isExpired
\* rejects is deleted; a hit makes the entry the most recently used and
\* restarts its age.
MemGet ==
  \E key \in ValidKeys :
    /\ Present(key)
    /\ LET e == timers.entry[1][key] IN
       IF ~Fresh(key) \/ isExpired(timers.now, e.createdAt, e.ttl)
       THEN Becomes(Disposed(data[1], indexes[1], timers, {key}))
       ELSE /\ timers' = [timers EXCEPT
                            !.entry[1][key] = getTouches("MemoryStore", timers.now, @),
                            !.recency = Append(SelectSeq(@, LAMBDA k : k # key), key)]
            /\ UNCHANGED <<data, indexes>>
    /\ UNCHANGED <<config, stores, last, hist, trace, glob, breaker, pending, metrics, inflight>>

\* MemoryStore.del(key): cache.delete(key).
MemDel ==
  \E key \in ValidKeys :
    /\ Present(key)
    /\ Becomes(Disposed(data[1], indexes[1], timers, {key}))
    /\ UNCHANGED <<config, stores, last, hist, trace, glob, breaker, pending, metrics, inflight>>

\* MemoryStore.clear(): cache.clear(), tagIndex.clear(), dependencyIndex.clear().
MemClear ==
  /\ timers.recency # <<>>
  /\ Becomes([map |-> StoreClear("MemoryStore", data[1], indexes[1], FALSE).map,
              index |-> StoreClear("MemoryStore", data[1], indexes[1], FALSE).index,
              timers |-> Disposed(data[1], indexes[1], timers, ValidKeys).timers])
  /\ UNCHANGED <<config, stores, last, hist, trace, glob, breaker, pending, metrics, inflight>>

\* MemoryStore.invalidateByTag(tag) and invalidateByDependency(dependency):
\* cache.delete for every key of the bucket, then the bucket is deleted.
MemInvalidateBy ==
  \E kind \in Kinds, id \in {"t1", "d3"} :
    /\ indexes[1][kind][id] # {}
    /\ LET gone == indexes[1][kind][id]
           d == Disposed(data[1], indexes[1], timers, gone) IN
       Becomes([d EXCEPT !.index[kind][id] = {}])
    /\ UNCHANGED <<config, stores, last, hist, trace, glob, breaker, pending, metrics, inflight>>

\* MemoryStore.invalidateByPattern(pattern): cache.delete for every key
\* keys(pattern) lists; cache.keys() passes over stale entries.
MemInvalidateByPattern ==
  \E pattern \in {<<"k", "*">>, <<"k", "2">>} :
    LET gone == {k \in ValidKeys : Fresh(k) /\ keysMatch(pattern, Chars(k))} IN
    /\ gone # {}
    /\ Becomes(Disposed(data[1], indexes[1], timers, gone))
    /\ UNCHANGED <<config, stores, last, hist, trace, glob, breaker, pending, metrics, inflight>>

\* A second passes; the LRU cache does not purge by itself (no ttlAutopurge).
Elapse ==
  /\ timers.now < MaxClock
  /\ timers' = [timers EXCEPT !.now = @ + 1]
  /\ UNCHANGED <<config, stores, data, last, indexes, hist, trace, glob, breaker, pending, metrics, inflight>>

NextMemory ==
  \/ MemSet
  \/ MemGet
  \/ MemDel
  \/ MemClear
  \/ MemInvalidateBy
  \/ MemInvalidateByPattern
  \/ Elapse

InitMemory ==
  /\ config = <<"MemoryStore">>
  /\ stores = Construct(config)
  /\ data = [s \in {1} |-> [k \in ValidKeys |-> NULL]]
  /\ indexes = [s \in {1} |-> EmptyIndex]
  /\ hist = NoHistory
  /\ trace = NoTrace
  /\ last = Idle
  /\ pending = {}
  /\ metrics = NoMetrics
  /\ inflight = NoCalls
  /\ glob = NoGlob
  /\ breaker = NoBreaker
  /\ timers = MemoryTimers

SpecMemory == InitMemory /\ [][NextMemory]_vars

----------------------------------------------------------------------------
(* Concurrent calls *)

\* LayeredStrategy's get, set, mset and del are async functions: a call runs
\* to its next await, and while it waits for a store the steps of the other
\* calls in progress run.  A MemoryStore performs a call before it returns
\* its promise; a remote store performs the calls made to it in the order
\* in which they were made.  All the calls are about one key, and none of
\* their store calls fails.
MaxCalls == 2

CallIds == 1..MaxCalls
StepKey == "k1"
Older == "v0"
Written == {"v1", "v2"}

\* A call that has just begun.  at is the level of the store whose call is
\* outstanding; value is the argument of a write and the value a get found;
\* answered says that the read loop of a get is over; awaiting holds the
\* stores whose promotion write is outstanding; alone says that no other
\* call was in progress when the call began.
Begin(op, value) ==
  [op |-> op, value |-> value, at |-> 1, answered |-> FALSE, awaiting |-> {},
   alone |-> FALSE]

Free == [Begin("none", NULL) EXCEPT !.at = 0]

Writes == {Begin(op, v) : op \in {"set", "mset"}, v \in Written} \cup {Begin("del", NULL)}

\* The call can return.  get: `await this.promoteValue(...)` awaits
\* Promise.all of the promotion writes before `return value`; a write
\* returns when its loop has passed the last store.
Completed(c) ==
  IF c.op = "get" THEN c.answered /\ c.awaiting = {}
  ELSE c.op # "none" /\ c.at > Len(stores)

\* The course of call id: the call (c), the stores' maps (d) and the calls
\* each remote store has not performed yet (q).
Course(id) == [c |-> inflight.calls[id], d |-> data, q |-> inflight.queue]

\* promoteValue of the get r.c, which found value at its level: set on
\* every store above.
Promoting(id, r, value) ==
  LET above == {stores[l] : l \in 1..(r.c.at - 1)}
      remote == {u \in above : ~InProcess(config[u])} IN
  [c |-> [r.c EXCEPT !.value = value, !.answered = TRUE, !.awaiting = remote],
   d |-> [u \in StoreIds |->
            IF u \in above \ remote
            THEN StoreSet(config[u], r.d[u], StepKey, value, FALSE).map
            ELSE r.d[u]],
   q |-> [u \in StoreIds |-> IF u \in remote THEN Append(r.q[u], id) ELSE r.q[u]]]

\* Store s performs the outstanding call of call id, and answers.
Performed(id, r, s) ==
  LET t == config[s] IN
  IF r.c.op = "del"
  THEN [r EXCEPT !.d[s] = StoreDel(t, @, StepKey, FALSE).map, !.c.at = @ + 1]
  ELSE IF r.c.op # "get"
  THEN [r EXCEPT !.d[s] = StoreSet(t, @, StepKey, r.c.value, FALSE).map, !.c.at = @ + 1]
  ELSE IF r.c.answered
  THEN [r EXCEPT !.d[s] = StoreSet(t, @, StepKey, r.c.value, FALSE).map,
                 !.c.awaiting = @ \ {s}]
  ELSE LET value == StoreGet(t, r.d[s], StepKey, FALSE).value IN
       IF value = NULL THEN [r EXCEPT !.c.at = @ + 1]
       ELSE Promoting(id, r, value)

\* Call id goes on until it waits for a remote store or can return: the
\* loops of get (17-35), set (37-52), del (54-72) and mset (115-130).
RECURSIVE Continue(_, _)
Continue(id, r) ==
  IF r.c.answered THEN r
  ELSE IF r.c.at > Len(stores)
  THEN IF r.c.op = "get" THEN [r EXCEPT !.c.answered = TRUE] ELSE r
  ELSE LET s == stores[r.c.at] IN
       IF InProcess(config[s])
       THEN Continue(id, Performed(id, r, s))
       ELSE [r EXCEPT !.q[s] = Append(@, id)]

\* The state after the step that took call id to r.
Stepped(id, r) ==
  /\ data' = r.d
  /\ inflight' = [calls |-> [inflight.calls EXCEPT ![id] = r.c], queue |-> r.q]

FreeId == CHOOSE id \in CallIds : inflight.calls[id] = Free

BeginGet ==
  /\ \E id \in CallIds : inflight.calls[id] = Free
  /\ Stepped(FreeId, Continue(FreeId, [Course(FreeId) EXCEPT !.c = Begin("get", NULL)]))
  /\ UNCHANGED <<config, stores, last, indexes, hist, trace, glob, breaker, pending, timers, metrics>>

\* The calls in progress.
Running == {id \in CallIds : inflight.calls[id] # Free}

\* A write is in progress.  The callers of this run wait for a write before
\* they begin the next one, so that one write is the last; they read at any
\* time.
Writing == \E id \in CallIds : inflight.calls[id].op \in {"set", "mset", "del"}

BeginWrite ==
  /\ \E id \in CallIds : inflight.calls[id] = Free
  /\ ~Writing
  /\ \E w \in Writes :
       Stepped(FreeId, Continue(FreeId, [Course(FreeId) EXCEPT
                                           !.c = [w EXCEPT !.alone = Running = {}]]))
  /\ UNCHANGED <<config, stores, last, indexes, hist, trace, glob, breaker, pending, timers, metrics>>

\* The outstanding call at the head of the queue of store s.
Head_(s) == inflight.calls[Head(inflight.queue[s])]

\* Store s performs the call made to it first, and the call it belongs to
\* goes on.
Serve(s) ==
  LET id == Head(inflight.queue[s])
      r == [Course(id) EXCEPT !.q[s] = Tail(@)] IN
  Stepped(id, Continue(id, Performed(id, r, s)))

\* A remote store answers the read of a get.
Answer ==
  /\ \E s \in StoreIds :
       /\ inflight.queue[s] # <<>>
       /\ Head_(s).op = "get"
       /\ ~Head_(s).answered
       /\ Serve(s)
  /\ UNCHANGED <<config, stores, last, indexes, hist, trace, glob, breaker, pending, timers, metrics>>

\* A promotion write reaches its store.
Promoted ==
  /\ \E s \in StoreIds :
       /\ inflight.queue[s] # <<>>
       /\ Head_(s).op = "get"
       /\ Head_(s).answered
       /\ Serve(s)
  /\ UNCHANGED <<config, stores, last, indexes, hist, trace, glob, breaker, pending, timers, metrics>>

\* A remote store performs the set, mset or del of a write.
Write ==
  /\ \E s \in StoreIds :
       /\ inflight.queue[s] # <<>>
       /\ Head_(s).op # "get"
       /\ Serve(s)
  /\ UNCHANGED <<config, stores, last, indexes, hist, trace, glob, breaker, pending, timers, metrics>>

\* get returns to its caller.
GetReturns ==
  /\ \E id \in CallIds :
       /\ inflight.calls[id].op = "get"
       /\ Completed(inflight.calls[id])
       /\ inflight' = [inflight EXCEPT !.calls[id] = Free]
  /\ UNCHANGED <<config, stores, data, last, indexes, hist, trace, glob, breaker, pending, timers, metrics>>

\* A write returns to its caller: it is the last write of the key.
WriteReturns ==
  /\ \E id \in CallIds :
       LET c == inflight.calls[id] IN
       /\ c.op # "get"
       /\ Completed(c)
       /\ inflight' = [inflight EXCEPT !.calls[id] = Free]
       /\ last' = [Call(c.op, <<StepKey>>, <<c.value>>, {}) EXCEPT !.flag = c.alone]
  /\ UNCHANGED <<config, stores, data, indexes, hist, trace, glob, breaker, pending, timers, metrics>>

NextSteps ==
  \/ BeginGet
  \/ BeginWrite
  \/ Answer
  \/ Promoted
  \/ Write
  \/ GetReturns
  \/ WriteReturns

TwoLevels == {<<"MemoryStore", "RedisStore">>, <<"RedisStore", "MemcachedStore">>}

\* A manager whose stores hold an older value of the key, or whose upper
\* store has dropped it (eviction, expiry) while the lower store holds it.
InitSteps ==
  /\ config \in TwoLevels
  /\ stores = Construct(config)
  /\ \E held \in {{}, {2}, {1, 2}} :
       data = [s \in {1, 2} |->
                 [k \in ValidKeys |-> IF k = StepKey /\ s \in held THEN Older ELSE NULL]]
  /\ indexes = [s \in {1, 2} |-> EmptyIndex]
  /\ inflight = [calls |-> [id \in CallIds |-> Free], queue |-> [s \in {1, 2} |-> <<>>]]
  /\ hist = NoHistory
  /\ trace = NoTrace
  /\ last = Idle
  /\ pending = {}
  /\ timers = NoTimers
  /\ metrics = NoMetrics
  /\ glob = NoGlob
  /\ breaker = NoBreaker

SpecSteps == InitSteps /\ [][NextSteps]_vars

----------------------------------------------------------------------------
(* MemcachedStore's index sets *)

\* MemcachedStore keeps the keys of a tag as one item, a JSON array under
\* 'tag:<tag>'.  set stores the entry and then, per tag, addToSet reads the
\* item, adds the key and stores the item again.  The server performs the
\* commands in the order in which the client sent them; a call sends its
\* next command when the previous one has been answered.  All the sets of
\* this run carry the tag t1, and no command fails.
SharedTag == "t1"

\* A set that has just been called: memcached.set of the entry is sent.
\* phase is the command that is outstanding (entry, read, store); array is
\* what addToSet stores.  overlapped says that some set began while another
\* was in progress.
Adding(key) == [key |-> key, phase |-> "entry", array |-> {}]

Resting == [key |-> "", phase |-> "none", array |-> {}]

\* set.add(value) on the array addToSet read.
addToArray(array, key) == array \cup {key}

\* The sets in progress.
Busy == {id \in CallIds : inflight.calls[id] # Resting}

\* set(key, 'v1', {tags: ['t1']}) is called, by itself or as one of the
\* sets mset starts together.
SetBegins ==
  /\ \E id \in CallIds \ Busy, key \in ValidKeys :
       inflight' = [calls |-> [inflight.calls EXCEPT ![id] = Adding(key)],
                    queue |-> Append(inflight.queue, id),
                    overlapped |-> inflight.overlapped \/ Busy # {}]
  /\ UNCHANGED <<config, stores, data, last, indexes, hist, trace, glob, breaker, pending, timers, metrics>>

\* The call whose command the server performs next.
Next_ == inflight.calls[Head(inflight.queue)]

\* The call at the head goes on to its next command, sent now.
Sends(phase, array) ==
  inflight' = [inflight EXCEPT
                 !.calls[Head(inflight.queue)] = [@ EXCEPT !.phase = phase, !.array = array],
                 !.queue = Append(Tail(@), Head(inflight.queue))]

\* memcached.set(key, entry) is performed; its callback calls addToSet,
\* which sends memcached.get(setKey).
EntryStored ==
  /\ inflight.queue # <<>>
  /\ Next_.phase = "entry"
  /\ data' = [data EXCEPT ![1][Next_.key] = "v1"]
  /\ indexes' = [indexes EXCEPT ![1].entry[Next_.key] =
                   [tag |-> {SharedTag}, dependency |-> {}]]
  /\ Sends("read", {})
  /\ UNCHANGED <<config, stores, last, hist, trace, glob, breaker, pending, timers, metrics>>

\* memcached.get(setKey) is performed; its callback adds the key to what it
\* read and sends memcached.set(setKey, array).
SetRead ==
  /\ inflight.queue # <<>>
  /\ Next_.phase = "read"
  /\ Sends("store", addToArray(indexes[1].tag[SharedTag], Next_.key))
  /\ UNCHANGED <<config, stores, data, last, indexes, hist, trace, glob, breaker, pending, timers, metrics>>

\* memcached.set(setKey, array) is performed; addToSet resolves, and so
\* does set.
SetStored ==
  /\ inflight.queue # <<>>
  /\ Next_.phase = "store"
  /\ indexes' = [indexes EXCEPT ![1].tag[SharedTag] = Next_.array]
  /\ inflight' = [inflight EXCEPT !.calls[Head(inflight.queue)] = Resting,
                                  !.queue = Tail(@)]
  /\ UNCHANGED <<config, stores, data, last, hist, trace, glob, breaker, pending, timers, metrics>>

NextIndexSets == SetBegins \/ EntryStored \/ SetRead \/ SetStored

InitIndexSets ==
  /\ config = <<"MemcachedStore">>
  /\ stores = Construct(config)
  /\ data = [s \in {1} |-> [k \in ValidKeys |-> NULL]]
  /\ indexes = [s \in {1} |-> EmptyIndex]
  /\ inflight = [calls |-> [id \in CallIds |-> Resting], queue |-> <<>>,
                 overlapped |-> FALSE]
  /\ hist = NoHistory
  /\ trace = NoTrace
  /\ last = Idle
  /\ pending = {}
  /\ timers = NoTimers
  /\ metrics = NoMetrics
  /\ glob = NoGlob
  /\ breaker = NoBreaker

SpecIndexSets == InitIndexSets /\ [][NextIndexSets]_vars

----------------------------------------------------------------------------
(* The async and cascade options of invalidateByDependency *)

\* InvalidationOptions: {async, cascade}
InvalidationOptions == [async : BOOLEAN, cascade : BOOLEAN]

\* invalidateByDependency(dependency, options) of the manager with no store
\* failing.  Every store is asked for the dependency; with async the call
\* returns 0 there, before `if (options?.cascade)`, and the stores that
\* have not answered answer later; without async it is the call of
\* InvalidateByDependency.
DoInvalidateByDependencyWithOptions ==
  /\ last.op = "idle"
  /\ pending = {}
  /\ \E dependency \in Deps, options \in InvalidationOptions, order \in DepOrders :
       LET run == InvalidateByDependency(Surroundings(config, stores, {}, order),
                                         data, indexes, dependency, options.cascade)
           job(s) == Job(1, s, "dependency", dependency, <<>>)
           early == {s \in StoreIds : Synchronous(config[s], "dependency")}
           r == [s \in StoreIds |->
                   IF s \in early
                   THEN StoreInvalidation(job(s), config[s], data[s], indexes[s], FALSE)
                   ELSE Invalidated(FALSE, 0, data[s], indexes[s])]
           f == Fanned(data, indexes, stores, r) IN
       /\ data' = IF options.async THEN f.data ELSE run.data
       /\ indexes' = IF options.async THEN f.index ELSE run.index
       /\ pending' = IF options.async THEN {job(s) : s \in StoreIds \ early} ELSE {}
       /\ last' = [Call("invalidateByDependency", <<dependency>>, <<options>>, {}) EXCEPT
                     !.ret = <<Returned(options.async, run.count)>>]
  /\ UNCHANGED <<config, stores, hist, trace, glob, breaker, timers, metrics, inflight>>

\* A store answers the invalidation an async call asked it for.
StoreAnswers ==
  /\ \E job \in pending :
       LET s == job.store
           r == StoreInvalidation(job, config[s], data[s], indexes[s], FALSE) IN
       /\ data' = [data EXCEPT ![s] = r.map]
       /\ indexes' = [indexes EXCEPT ![s] = r.index]
       /\ pending' = pending \ {job}
  /\ UNCHANGED <<config, stores, last, hist, trace, glob, breaker, timers, metrics, inflight>>

\* The dependency lists the callers of this run pass.
LinkOptions == {[tag |-> {}, dependency |-> {dep}] : dep \in {"k1", "d3"}}

\* set(key, value, {dependencies}) with no store failing.
DoSetLinked ==
  /\ last.op = "idle"
  /\ \E key \in ValidKeys, value \in DepValues, options \in LinkOptions :
       SetWithOptions(key, value, options, {})
  /\ UNCHANGED <<config, stores, trace, glob, breaker, pending, timers, metrics, inflight>>

NextCascadeAsync ==
  \/ DoSetLinked
  \/ DoInvalidateByDependencyWithOptions
  \/ StoreAnswers
  \/ Return

InitCascadeAsync ==
  /\ \E cfg \in {<<"RedisStore">>, <<"MemoryStore", "RedisStore">>} : Constructed(cfg)
  /\ glob = NoGlob
  /\ breaker = NoBreaker

SpecCascadeAsync == InitCascadeAsync /\ [][NextCascadeAsync]_vars

----------------------------------------------------------------------------
(* del of entries with tags and dependencies *)

\* store.del(key) of a store of type t and its index sets.  RedisStore.del
\* returns false when `await this.get(key)` is falsy; else it deletes the
\* key and removes it (srem) from the sets of the tags and dependencies of
\* the entry.  MemoryStore.del disposes of the entry, MemcachedStore.del
\* removes the key from the sets of the entry it read.
StoreDelIndexed(t, m, ix, key) ==
  LET r == StoreDel(t, m, key, FALSE) IN
  [deleted |-> r.value, map |-> r.map,
   index |-> IF r.value THEN cleanupIndexes(ix, {key}) ELSE ix]

\* The options and values the callers of this run pass.
DelOptions == LabelOptions \cup {NoOptions}

\* set(key, value, options) with no store failing.
DoSetValued ==
  /\ last.op = "idle"
  /\ \E key \in ValidKeys, value \in Values, options \in DelOptions :
       SetWithOptions(key, value, options, {})
  /\ UNCHANGED <<config, stores, trace, glob, breaker, pending, timers, metrics, inflight>>

\* del(key) with no store failing: LayeredStrategy.del asks every store.
DoDelIndexed ==
  /\ last.op = "idle"
  /\ \E key \in ValidKeys :
       LET r == [s \in StoreIds |->
                   StoreDelIndexed(config[s], data[s], indexes[s], key)] IN
       /\ data' = [s \in StoreIds |-> r[s].map]
       /\ indexes' = [s \in StoreIds |-> r[s].index]
       /\ last' = [Call("del", <<key>>, <<>>, {}) EXCEPT
                     !.flag = \E s \in StoreIds : r[s].deleted]
  /\ UNCHANGED <<config, stores, hist, trace, glob, breaker, pending, timers, metrics, inflight>>

NextDelete == DoSetValued \/ DoDelIndexed \/ Return

InitDelete ==
  /\ \E cfg \in {<<"RedisStore">>, <<"MemoryStore", "RedisStore">>} : Constructed(cfg)
  /\ glob = NoGlob
  /\ breaker = NoBreaker

SpecDelete == InitDelete /\ [][NextDelete]_vars

TypeOK ==
  /\ config \in Configs \cup {ThreeTier}
  /\ data \in [1..Len(config) -> [ValidKeys -> Values \cup {NULL}]]
  /\ Len(stores) = Len(config)

----------------------------------------------------------------------------
(* Properties of get *)

\* The levels of st whose store answers a read of key with a value: the
\* store does not reject the call and holds the key.
Answering(st, d, key, down) ==
  {i \in 1..Len(st) : st[i] \notin down /\ validateKey(key) /\ d[st[i]][key] # NULL}

\* The first answering level and its value; level 0 and NULL if there is none.
FirstHit(st, d, key, down) ==
  LET a == Answering(st, d, key, down) IN
  IF a = {} THEN [level |-> 0, value |-> NULL]
  ELSE LET i == CHOOSE x \in a : \A y \in a : x <= y IN
       [level |-> i, value |-> d[st[i]][key]]

\* C1: get never raises because of a store failure.  Whatever subset of the
\* stores rejects the read (backend error, open circuit, invalid key), get
\* returns the value of the first store that does answer with one, skipping
\* the failing stores like misses, and null when no store answers.
C1_GetIsolatesStoreFailures ==
  [][last'.op = "get" =>
       LET hit == FirstHit(stores, data, last'.keys[1], last'.down) IN
       /\ ~last'.raised
       /\ last'.ret = <<hit.value>>
       /\ last'.found = <<hit.level>>]_vars

\* C1 witness: the first tier rejected the read and a later tier served it.
C1_Witness ==
  /\ last.op = "get"
  /\ stores[1] \in last.down
  /\ last.found[1] > 1
  /\ last.ret[1] # NULL

\* The ranking the claim states: MemoryStore, RedisStore, MemcachedStore, then
\* any other store.
ClaimedRank(t) ==
  CASE t = "MemoryStore" -> 1
    [] t = "RedisStore" -> 2
    [] t = "MemcachedStore" -> 3
    [] OTHER -> 4

\* st lists every store of cfg once, by ascending rank, equal ranks in the
\* order of configuration.
InClaimedOrder(cfg, st) ==
  /\ Len(st) = Len(cfg)
  /\ {st[i] : i \in 1..Len(st)} = 1..Len(cfg)
  /\ \A i, j \in 1..Len(st) :
       i < j => \/ ClaimedRank(cfg[st[i]]) < ClaimedRank(cfg[st[j]])
                \/ /\ ClaimedRank(cfg[st[i]]) = ClaimedRank(cfg[st[j]])
                   /\ st[i] < st[j]

ClaimedOrder(cfg) ==
  CHOOSE st \in [1..Len(cfg) -> 1..Len(cfg)] : InClaimedOrder(cfg, st)

TypesInOrder(cfg, st) == [i \in 1..Len(st) |-> cfg[st[i]]]

IsPermutationOf(c, cfg) ==
  /\ Len(c) = Len(cfg)
  /\ \E f \in [1..Len(cfg) -> 1..Len(cfg)] :
       /\ \A i, j \in 1..Len(cfg) : i # j => f[i] # f[j]
       /\ \A i \in 1..Len(cfg) : c[i] = cfg[f[i]]

\* C2: the stores are ordered by ascending priority, equal priorities in
\* insertion order; the tier order is the same for every order in which the
\* same stores are configured; no operation changes it; and get returns the
\* value of the first store in that order that answers with a value.
C2_PriorityOrder ==
  /\ [](/\ stores = ClaimedOrder(config)
        /\ \A c \in Configs :
             IsPermutationOf(c, config) =>
               TypesInOrder(c, Construct(c)) = TypesInOrder(config, stores))
  /\ [][/\ stores' = stores
        /\ last'.op = "get" =>
             last'.ret = <<FirstHit(ClaimedOrder(config), data, last'.keys[1],
                                    last'.down).value>>]_vars

\* C2 witness: Memcached was configured before memory, both hold the key
\* with different values, and get returned the memory store's.
C2_Witness ==
  /\ config = <<"MemcachedStore", "MemoryStore">>
  /\ last.op = "get"
  /\ last.down = {}
  /\ last.keys[1] \in ValidKeys
  /\ data[1][last.keys[1]] # NULL
  /\ data[2][last.keys[1]] # data[1][last.keys[1]]
  /\ last.ret = <<data[2][last.keys[1]]>>

C4_PromotionFailureHarmless ==
  [][last'.op \in {"get", "mget"} =>
       /\ ~last'.raised
       /\ last'.ret =
            IF last'.op = "get"
            THEN <<Get(config, stores, data, last'.keys[1], last'.down, {}, 1).value>>
            ELSE MGet(config, stores, data, last'.keys, last'.down, {}).values]_vars

\* C4 witness: a hit at the third tier was returned although both promotion
\* writes failed.
C4_Witness ==
  /\ last.op = "get"
  /\ last.found = <<3>>
  /\ Cardinality(last.promoFailed) = 2
  /\ last.ret[1] # NULL
  /\ ~last.raised

----------------------------------------------------------------------------
(* Properties of set, mset and del *)

\* The pairs of the last mset call.
LastPairs == [i \in 1..Len(last.keys) |-> <<last.keys[i], last.vals[i]>>]

\* The stores in which the write of the last set or mset call failed.
WriteFailed ==
  IF last.op = "set"
  THEN {s \in StoreIds :
          StoreSet(config[s], data[s], last.keys[1], last.vals[1], s \in last.down).threw}
  ELSE {s \in StoreIds :
          StoreMSet(config[s], data[s], LastPairs, Identity(Len(LastPairs)),
                    s \in last.down).threw}

\* The last call was a set that failed in some stores and succeeded in others.
PartialSet == last.op = "set" /\ WriteFailed # {} /\ WriteFailed # StoreIds

\* The levels whose store accepted the last write and answers a read that
\* the stores gdown reject.
Serving(gdown) ==
  {l \in 1..Len(stores) : stores[l] \notin WriteFailed /\ stores[l] \notin gdown}

\* C5 as stated: after a set that failed in some stores and succeeded in
\* others, set has not raised and every later get that a store holding the
\* write answers returns the value written, whatever the failing stores hold.
C5_Original ==
  PartialSet =>
    /\ ~last.raised
    /\ \A gdown \in SUBSET StoreIds :
         Serving(gdown) # {} =>
           Get(config, stores, data, last.keys[1], gdown, {}, 1).value = last.vals[1]

\* C5 amended: after such a set, set has not raised, and a later get returns
\* the value written provided no store whose write failed, ranked above every
\* store that accepted the write and answers the read, answers the read with
\* an older value.
C5_PartialWriteDurability ==
  PartialSet =>
    /\ ~last.raised
    /\ \A gdown \in SUBSET StoreIds :
         (/\ Serving(gdown) # {}
          /\ \A l \in 1..Len(stores) :
               (\A m \in Serving(gdown) : l < m) =>
                 \/ stores[l] \in gdown
                 \/ data[stores[l]][last.keys[1]] \in {NULL, last.vals[1]})
         => Get(config, stores, data, last.keys[1], gdown, {}, 1).value = last.vals[1]

\* C5 witness: the write failed in the first store, which holds nothing for
\* the key, and a get that no store rejects returns the value from the second.
C5_Witness ==
  /\ PartialSet
  /\ Len(stores) = 2
  /\ stores[1] \in WriteFailed
  /\ data[stores[1]][last.keys[1]] = NULL
  /\ Get(config, stores, data, last.keys[1], {}, {}, 1).value = last.vals[1]
  /\ Get(config, stores, data, last.keys[1], {}, {}, 1).found = 2

\* The error of the store at level l in the last set or mset call.
WriteError(l) ==
  LET s == stores[l] IN
  IF last.op = "set"
  THEN StoreSet(config[s], data[s], last.keys[1], last.vals[1], s \in last.down).error
  ELSE StoreMSet(config[s], data[s], LastPairs, Identity(Len(LastPairs)),
                 s \in last.down).error

\* C6: set and mset raise if and only if the write failed in every
\* configured store, and the error raised lists the failure of each store,
\* in store order.
C6_RaiseIffAllFailed ==
  last.op \in {"set", "mset"} =>
    /\ last.raised <=> WriteFailed = StoreIds
    /\ last.raised => last.errors = [l \in 1..Len(stores) |-> WriteError(l)]

\* C6 witness: an mset that two stores failed for different reasons raised
\* with both failures.
C6_Witness ==
  /\ last.op = "mset"
  /\ last.raised
  /\ Len(stores) = 2
  /\ Len(last.errors) = 2
  /\ last.errors[1] # last.errors[2]

\* C7 as stated: whenever set or mset raises, no store holds a pair written
\* by the call.
C7_Original ==
  [][(last'.op \in {"set", "mset"} /\ last'.raised) => data' = data]_vars

\* C8: del never raises and returns true exactly when at least one store
\* deleted the key.
C8_DelReportsAnyDeletion ==
  [][last'.op = "del" =>
       LET key == last'.keys[1]
           removed == {s \in StoreIds : /\ validateKey(key)
                                        /\ data[s][key] # NULL
                                        /\ data'[s][key] = NULL} IN
       /\ ~last'.raised
       /\ last'.flag <=> removed # {}]_vars

\* C8 witness: del returned true although a store rejected the call.
C8_Witness ==
  /\ last.op = "del"
  /\ last.flag
  /\ last.down # {}
  /\ ~last.raised

\* No store serves the key: get returns null and exists returns false.
Absent(d, key) ==
  /\ Get(config, stores, d, key, {}, {}, 1).value = NULL
  /\ ~Exists(config, stores, d, key, {}, 1)

\* The keys the call c writes when it is a set or an mset.
WrittenKeys(c) ==
  IF c.op \in {"set", "mset"} THEN {c.keys[i] : i \in 1..Len(c.keys)} ELSE {}

\* C9 as stated: after a del in which no store failed the key is absent from
\* every store, and remains absent until the next set of the key.
C9_Original ==
  [][/\ (last'.op = "del" /\ last'.errors = <<>>) => Absent(data', last'.keys[1])
     /\ \A k \in ValidKeys :
          (Absent(data, k) /\ k \notin WrittenKeys(last')) => Absent(data', k)]_vars

----------------------------------------------------------------------------
(* Properties of mget *)

\* C10 as stated: mget returns, position by position, what get returns for
\* that key in the same state.
C10_Original ==
  [][last'.op = "mget" =>
       /\ Len(last'.ret) = Len(last'.keys)
       /\ \A i \in 1..Len(last'.keys) :
            last'.ret[i] =
              Get(config, stores, data, last'.keys[i], last'.down, {}, 1).value]_vars

----------------------------------------------------------------------------
(* Properties of tag and pattern invalidation *)

\* What get returns for key from the stores d when no store fails.
Served(d, key) == Get(config, stores, d, key, {}, {}, 1).value

\* C11 as stated: after an invalidateByTag(tag) in which no store failed,
\* get returns null for every key whose last set carried the tag, and every
\* key whose last set did not carry it is returned as before.
C11_Original ==
  [][(last'.op = "invalidateByTag" /\ last'.errors = <<>>) =>
       \A k \in ValidKeys :
         hist[k].value # NULL =>
           IF last'.keys[1] \in hist[k].options.tag
           THEN Served(data', k) = NULL
           ELSE Served(data', k) = Served(data, k)]_vars

\* The glob matching the claims state: * matches any sequence of
\* characters, ? exactly one, every other character itself, on the whole key.
RECURSIVE GlobAccepts(_, _)
GlobAccepts(pattern, key) ==
  IF pattern = <<>> THEN key = <<>>
  ELSE IF Head(pattern) = "*"
       THEN \/ GlobAccepts(Tail(pattern), key)
            \/ key # <<>> /\ GlobAccepts(pattern, Tail(key))
  ELSE /\ key # <<>>
       /\ Head(pattern) = "?" \/ Head(pattern) = Head(key)
       /\ GlobAccepts(Tail(pattern), Tail(key))

\* C12 as stated: after an invalidateByPattern(pattern) in which no store
\* failed, get returns null for every key that matches the pattern, whatever
\* the type of the store that holds it, and every key that does not match is
\* returned as before.
C12_Original ==
  [][(last'.op = "invalidateByPattern" /\ last'.errors = <<>>) =>
       \A k \in ValidKeys :
         IF GlobAccepts(last'.keys[1], Chars(k))
         THEN Served(data', k) = NULL
         ELSE Served(data', k) = Served(data, k)]_vars

----------------------------------------------------------------------------
(* Properties of glob matching *)

\* C13: keys(pattern) lists a key exactly when the whole key matches the
\* glob pattern, where * stands for any sequence of characters, the empty
\* one included, ? for exactly one character and every other character of
\* the pattern for itself.
C13_Original ==
  glob.done => (glob.matched <=> GlobAccepts(glob.pattern, glob.key))

\* With neither a line terminator in the key nor an empty pattern the
\* matcher agrees with the glob semantics.
C13_WithoutLineTerminators ==
  (/\ glob.done
   /\ glob.pattern # <<>>
   /\ \A j \in 1..Len(glob.key) : glob.key[j] \notin LineTerminators)
  => (glob.matched <=> GlobAccepts(glob.pattern, glob.key))

----------------------------------------------------------------------------
(* Properties of dependency invalidation *)

\* C14 as stated: after an invalidateByDependency(d) without cascade in
\* which no store failed, get returns null for every key whose last set
\* listed d among its dependencies, and every key that does not depend on d
\* is returned as before.
C14_Original ==
  [][(/\ last'.op = "invalidateByDependency"
      /\ ~last'.flag
      /\ last'.down = {}) =>
       \A k \in ValidKeys :
         hist[k].value # NULL =>
           IF last'.keys[1] \in hist[k].options.dependency
           THEN Served(data', k) = NULL
           ELSE Served(data', k) = Served(data, k)]_vars

\* In a manager of one MemoryStore, whose index follows every write, the
\* same holds.
C14_InMemory ==
  [][(/\ last'.op = "invalidateByDependency"
      /\ ~last'.flag
      /\ last'.down = {}
      /\ config = <<"MemoryStore">>) =>
       \A k \in ValidKeys :
         hist[k].value # NULL =>
           IF last'.keys[1] \in hist[k].options.dependency
           THEN Served(data', k) = NULL
           ELSE Served(data', k) = Served(data, k)]_vars

\* C15 as stated: if an entry depends on both d and another identifier c,
\* then after invalidateByDependency(d, {cascade: true}) in which no store
\* failed, get returns null for every key whose last set listed c.
C15_Original ==
  [][(/\ last'.op = "invalidateByDependency"
      /\ last'.flag
      /\ last'.down = {}) =>
       \A c \in Deps \ {last'.keys[1]} :
         (\E a \in ValidKeys :
            /\ Served(data, a) # NULL
            /\ {last'.keys[1], c} \subseteq hist[a].options.dependency)
         => \A b \in ValidKeys :
              (hist[b].value # NULL /\ c \in hist[b].options.dependency)
              => Served(data', b) = NULL]_vars

C17_Original ==
  [][(/\ last'.op = "invalidateByDependency"
      /\ last'.flag
      /\ last'.down = {}
      /\ last'.keys = <<"k1">>
      /\ Served(data, "k1") # NULL
      /\ Served(data, "k2") # NULL
      /\ hist["k1"].options.dependency = {"k2"}
      /\ hist["k2"].options.dependency = {"k1"}) =>
       /\ Served(data', "k1") = NULL
       /\ Served(data', "k2") = NULL
       /\ last'.ret = <<2>>]_vars

----------------------------------------------------------------------------
(* Properties of the circuit breaker *)

\* C19: a call on a store whose breaker is open and whose open-until time
\* is not reached fails with the circuit-open error, runs no wrapped
\* operation, and leaves the open flag, the failure counter and the
\* open-until time as they were.
C19_OpenRejects ==
  [][(/\ breaker'.out # "none"
      /\ breaker.isOpen
      /\ breaker.nextAttemptTime # 0
      /\ breaker.now < breaker.nextAttemptTime) =>
       /\ breaker'.out = "circuit-open"
       /\ breaker'.invoked = 0
       /\ breaker'.isOpen = breaker.isOpen
       /\ breaker'.failures = breaker.failures
       /\ breaker'.nextAttemptTime = breaker.nextAttemptTime]_vars

\* A call was rejected by a breaker that the failures of earlier calls
\* opened.
C19_Witness ==
  /\ breaker.enabled
  /\ breaker.out = "circuit-open"
  /\ breaker.op = "mget"
  /\ breaker.isOpen
  /\ breaker.failures >= breaker.errorThreshold
  /\ breaker.now > breaker.lastFailTime
  /\ breaker.now < breaker.nextAttemptTime

\* C20 as stated: with the breaker closed, the call that is the N-th failed
\* call in a row (N the threshold) opens the breaker until the time of that
\* failure plus the timeout, a failed call that is not yet the N-th leaves
\* it closed, a call that succeeds resets the counter, and a call whose
\* operation failed raises the operation's error.
C20_Original ==
  [][(breaker'.out \in {"ok", "error"} /\ ~breaker.isOpen) =>
       /\ (breaker'.out = "error" /\ breaker'.streak >= breaker.errorThreshold)
            => /\ breaker'.isOpen
               /\ breaker'.nextAttemptTime = breaker'.now + breaker.timeout
       /\ (breaker'.out = "error" /\ breaker'.streak < breaker.errorThreshold)
            => ~breaker'.isOpen
       /\ breaker'.out = "ok" => breaker'.failures = 0 /\ ~breaker'.isOpen]_vars

\* The same for the calls that pass the breaker once (get), from the states
\* in which the counter is the number of failed calls in a row.
C20_SingleWrapper ==
  [][(/\ breaker'.out \in {"ok", "error"}
      /\ ~breaker.isOpen
      /\ breaker'.op = "get"
      /\ breaker.failures = breaker.streak) =>
       /\ (breaker'.out = "error" /\ breaker'.streak >= breaker.errorThreshold)
            => /\ breaker'.isOpen
               /\ breaker'.nextAttemptTime = breaker'.now + breaker.timeout
       /\ (breaker'.out = "error" /\ breaker'.streak < breaker.errorThreshold)
            => ~breaker'.isOpen
       /\ breaker'.out = "ok" => breaker'.failures = 0 /\ ~breaker'.isOpen
       /\ breaker'.failures = breaker'.streak]_vars

\* C21 as stated: the call that finds the breaker open with the open-until
\* time passed invokes the operation; if the operation succeeds the breaker
\* is closed with counter 0, and if it fails the counter is 1 and the
\* breaker is open exactly if the threshold is 1.
C21_Original ==
  [][(/\ breaker'.out # "none"
      /\ breaker.isOpen
      /\ breaker.now >= breaker.nextAttemptTime) =>
       /\ breaker'.invoked >= 1
       /\ breaker'.out # "circuit-open"
       /\ breaker'.out = "ok" => (~breaker'.isOpen /\ breaker'.failures = 0)
       /\ breaker'.out = "error" =>
            /\ breaker'.failures = 1
            /\ breaker'.isOpen <=> (breaker.errorThreshold <= 1)]_vars

\* The same for the probes that pass the breaker once (get).
C21_SingleWrapper ==
  [][(/\ breaker'.out # "none"
      /\ breaker'.op = "get"
      /\ breaker.isOpen
      /\ breaker.now >= breaker.nextAttemptTime) =>
       /\ breaker'.invoked = 1
       /\ breaker'.out # "circuit-open"
       /\ breaker'.out = "ok" => (~breaker'.isOpen /\ breaker'.failures = 0)
       /\ breaker'.out = "error" =>
            /\ breaker'.failures = 1
            /\ breaker'.isOpen <=> (breaker.errorThreshold <= 1)]_vars

\* A probe through get has failed on a breaker of threshold 2 and left it
\* closed with one failure counted.
C21_ProbeReached ==
  /\ breaker.enabled
  /\ breaker.op = "get"
  /\ breaker.out = "error"
  /\ breaker.failures = 1
  /\ ~breaker.isOpen
  /\ breaker.nextAttemptTime # 0
  /\ breaker.now >= breaker.nextAttemptTime

\* C22 as stated: whatever the interleaving of the calls in flight on a
\* store, an open breaker has a failure counter at or above the threshold.
C22_Original ==
  breaker.enabled => (breaker.isOpen => breaker.failures >= breaker.errorThreshold)

\* The two transitions the same statement names do hold under every
\* interleaving: the breaker opens only with the counter at the threshold,
\* and closes only when the open-until time has passed.
C22_Transitions ==
  [][/\ (~breaker.isOpen /\ breaker'.isOpen)
          => breaker'.failures >= breaker.errorThreshold
     /\ (breaker.isOpen /\ ~breaker'.isOpen)
          => breaker.now >= breaker.nextAttemptTime]_vars

\* C23 as stated, first half: under a manager configured with
\* circuitBreaker {enabled, errorThreshold: N, timeout: T}, the call that
\* follows the N-th failed call in a row at once (before any time has
\* passed) is rejected and does not reach the backend.
C23_Original ==
  [][(/\ breaker.manager.enabled
      /\ breaker'.out # "none"
      /\ breaker.out = "error"
      /\ breaker.streak >= breaker.manager.errorThreshold) =>
       /\ breaker'.out = "circuit-open"
       /\ breaker'.invoked = 0]_vars

\* Its second half: a store without a breaker runs every operation and
\* tracks no failure.
C23_NoBreakerRunsDirectly ==
  [][(~breaker.enabled /\ breaker'.out # "none") =>
       /\ breaker'.invoked = 1
       /\ breaker'.out \in {"ok", "error"}
       /\ breaker'.failures = 0
       /\ ~breaker'.isOpen
       /\ breaker'.nextAttemptTime = 0]_vars

\* And a store whose own configuration entry carries the setting is
\* protected as stated.
C23_StoreLevel ==
  [][(/\ breaker.enabled
      /\ breaker'.out # "none"
      /\ breaker.out = "error"
      /\ breaker.streak >= breaker.errorThreshold) =>
       /\ breaker'.out = "circuit-open"
       /\ breaker'.invoked = 0]_vars

----------------------------------------------------------------------------
(* Properties of the invalidators' fan-out *)

\* What the store s would do with the invalidation that the call now made
\* describes, if it does not fail.
Alone(call, s) ==
  CASE call.op = "invalidateByTag" ->
         StoreInvalidateBy("tag", config[s], data[s], indexes[s], call.keys[1], FALSE)
    [] call.op = "invalidateByPattern" ->
         StoreInvalidateByPattern(config[s], data[s], indexes[s], call.keys[1], FALSE)
    [] OTHER ->
         StoreInvalidateBy("dependency", config[s], data[s], indexes[s],
                           call.keys[1], FALSE)

\* The sum of count(s) over the stores of S.
RECURSIVE SumOver(_, _)
SumOver(S, call) ==
  IF S = {} THEN 0
  ELSE LET s == CHOOSE x \in S : TRUE IN
       Alone(call, s).count + SumOver(S \ {s}, call)

RECURSIVE RemovedIn(_)
RemovedIn(S) ==
  IF S = {} THEN 0
  ELSE LET s == CHOOSE x \in S : TRUE IN
       Cardinality({k \in ValidKeys : data[s][k] # NULL /\ data'[s][k] = NULL})
       + RemovedIn(S \ {s})

\* C25 as stated: invalidateByTag returns the number of entries the stores
\* removed for the tag, summed over the stores.
C25_Original ==
  [][last'.op = "invalidateByTag" => last'.ret = <<RemovedIn(StoreIds)>>]_vars

----------------------------------------------------------------------------
(* Properties of the async option *)

\* C26: with options.async, invalidateByTag, invalidateByPattern and
\* invalidateByDependency return 0 and raise nothing, without waiting for
\* the stores: a store reached over the network has not been changed when
\* the call returns and its invalidation is outstanding; and when a store
\* answers or fails later, the answer the caller got is not touched.
C26_AsyncReturnsZero ==
  [][/\ (last.op = "idle" /\ last'.op # "idle" /\ last'.flag
           /\ last'.op \in {"invalidateByTag", "invalidateByPattern",
                            "invalidateByDependency"})
          => /\ last'.ret = <<0>>
             /\ ~last'.raised
             /\ \A s \in StoreIds :
                  ~InProcess(config[s])
                    => /\ data'[s] = data[s]
                       /\ \E job \in pending' \ pending : job.store = s
     /\ (pending' # pending /\ last.op # "idle" /\ last'.op # "idle")
          => last' = last]_vars

\* An async invalidateByTag has returned 0 while a store that holds an
\* entry with the tag has not answered yet.
C26_Witness ==
  /\ last.op = "invalidateByTag"
  /\ last.flag
  /\ last.ret = <<0>>
  /\ \E job \in pending :
       /\ job.kind = "tag"
       /\ \E k \in indexes[job.store].tag[job.id] : data[job.store][k] # NULL
----------------------------------------------------------------------------
(* Properties of clear *)

\* C27: clear() never raises; when it has returned, every store that did
\* not fail holds no entry and no index bucket: the failure of one store
\* does not keep the others from being cleared.
C27_ClearIsolatesFailures ==
  [][(last.op = "idle" /\ last'.op = "clear")
       => /\ ~last'.raised
          /\ \A s \in StoreIds :
               s \notin last'.down
                 => /\ \A k \in ValidKeys : data'[s][k] = NULL
                    /\ indexes'[s] = EmptyIndex]_vars

\* clear() has returned after one store failed and another, which held a
\* labelled entry, was cleared.
C27_Witness ==
  /\ last.op = "clear"
  /\ \E s \in last.down : \E k \in ValidKeys :
       data[s][k] # NULL /\ indexes[s].tag["t1"] # {}
  /\ \E s \in StoreIds \ last.down :
       /\ \A k \in ValidKeys : data[s][k] = NULL
       /\ indexes[s] = EmptyIndex
       /\ \E k \in ValidKeys : hist[k].value # NULL
----------------------------------------------------------------------------
(* Properties of expiry *)

\* C28: a value set with ttl t in every store is returned by get before t
\* seconds have passed since that set (if no store fails the read), and is
\* not returned by any get once more than t seconds have passed, whichever
\* tier serves the read and whatever reads and promotions happened in
\* between.
C28_Original ==
  [][(last.op = "idle" /\ last'.op = "get")
       => LET w == timers.written[last'.keys[1]] IN
          (w.everywhere /\ w.ttl # 0)
            => /\ (timers.now - w.at < w.ttl /\ last'.down = {})
                    => last'.ret = <<"v1">>
               /\ timers.now - w.at > w.ttl => last'.ret = <<NULL>>]_vars

\* What holds of each store by itself: the store that serves a read serves
\* an entry that isExpired does not reject, so an entry written with ttl t
\* leaves its store no later than t seconds after it was written there.
C28_EntryLevel ==
  [][(last.op = "idle" /\ last'.op = "get" /\ last'.found # <<0>>)
       => LET e == timers.entry[stores[last'.found[1]]][last'.keys[1]] IN
          e.ttl # 0 => timers.now - e.createdAt <= e.ttl]_vars
\* When the backend drops an entry with the times e (0: never).
ExpiresAt(e) == IF e.life = 0 THEN 0 ELSE e.start + e.life

\* C29: reading does not change an entry's expiry: a get or an exists
\* leaves the time at which the backend drops an entry as it was, for every
\* entry that was there before the read and is there after it, the copies
\* written by the read's promotion aside.
C29_Original ==
  [][(last.op = "idle" /\ last'.op \in {"get", "exists"})
       => \A s \in StoreIds, k \in TimedKeys :
            (/\ data[s][k] # NULL
             /\ data'[s][k] # NULL
             /\ ~(last'.op = "get" /\ LevelOf(s) < last'.found[1]))
              => ExpiresAt(timers'.entry[s][k]) = ExpiresAt(timers.entry[s][k])]_vars

\* What holds: a read never changes when isExpired starts to reject an
\* entry, and MemcachedStore leaves the times of its entries alone.
C29_EntryLevel ==
  [][(last.op = "idle" /\ last'.op \in {"get", "exists"})
       => \A s \in StoreIds, k \in TimedKeys :
            (/\ data[s][k] # NULL
             /\ data'[s][k] # NULL
             /\ ~(last'.op = "get" /\ LevelOf(s) < last'.found[1]))
              => /\ timers'.entry[s][k].createdAt = timers.entry[s][k].createdAt
                 /\ timers'.entry[s][k].ttl = timers.entry[s][k].ttl
                 /\ config[s] = "MemcachedStore"
                      => timers'.entry[s][k] = timers.entry[s][k]]_vars
----------------------------------------------------------------------------
(* Properties of validation *)

\* C30: set with an empty or non-string key, or with an undefined value,
\* raises, and nothing is written: the entries and the indexes of every
\* store are as they were before the call.
C30_InvalidSetWritesNothing ==
  [][(/\ last.op = "idle"
      /\ last'.op = "set"
      /\ \/ last'.keys[1] \in {"", NotAString}
         \/ last'.vals[1] = UNDEFINED)
       => /\ last'.raised
          /\ Len(last'.errors) = Len(stores)
          /\ data' = data
          /\ indexes' = indexes]_vars

\* A set of an undefined value under a well-formed key, with options, was
\* raised by stores that were all available and hold labelled entries.
C30_Witness ==
  /\ last.op = "set"
  /\ last.raised
  /\ last.keys[1] \in ValidKeys
  /\ last.vals[1] = UNDEFINED
  /\ last.down = {}
  /\ \A s \in StoreIds :
       data[s][last.keys[1]] = "v1" /\ indexes[s].tag["t1"] # {}

\* A set under a key that is not a string was raised likewise.
C30_WitnessKey ==
  /\ last.op = "set"
  /\ last.raised
  /\ last.keys[1] = NotAString
  /\ last.down = {}
  /\ \E s \in StoreIds, k \in ValidKeys : data[s][k] = "v1"
----------------------------------------------------------------------------
(* Properties of the metrics *)

\* What a completed call has added to the counters if it was counted once:
\* one operation, one error if it raised, and for a get one hit or one miss.
CountedOnce ==
  /\ metrics'.operations = metrics.operations + 1
  /\ metrics'.errors = metrics.errors + (IF last'.raised THEN 1 ELSE 0)
  /\ last'.op = "get" =>
       /\ metrics'.hits = metrics.hits + (IF last'.ret # <<NULL>> THEN 1 ELSE 0)
       /\ metrics'.misses = metrics.misses + (IF last'.ret = <<NULL>> THEN 1 ELSE 0)

\* C31: every public call of the manager that withMetrics wraps adds
\* exactly one to the operation count, one to the error count exactly when
\* it fails, and a get records exactly one hit or one miss.
C31_Original ==
  [][(last.op = "idle" /\ last'.op # "idle") => CountedOnce]_vars

\* What holds: the calls that do not call other metered calls of the
\* manager are counted once, and a set that raised as one error.
C31_SingleWrapper ==
  [][(last.op = "idle" /\ last'.op \in {"get", "set"}) => CountedOnce]_vars
----------------------------------------------------------------------------
(* Properties of MemoryStore's indexes *)

\* The keys listed under tag or dependency id carry it, and each satisfies
\* held.
Indexed(held) ==
  \A kind \in Kinds, id \in Ids :
    \A k \in indexes[1][kind][id] :
      held[k] /\ id \in indexes[1].entry[k][kind]

----------------------------------------------------------------------------
(* Properties of concurrent calls *)

\* C33: get returns as soon as the store that holds the value has answered;
\* its completion does not wait for the promotion writes.  Whenever the
\* read of a get in progress is over, the get can return.
C33_Original ==
  \A id \in Running :
    (inflight.calls[id].op = "get" /\ inflight.calls[id].answered)
      => Completed(inflight.calls[id])

\* The stores to which a write in progress has made its call.
Issued(c) == {stores[l] : l \in {n \in 1..Len(stores) : n <= c.at}}

\* C34: set and mset make their calls to the stores concurrently and then
\* join them: while a set or an mset is in progress, its call to every
\* store has been made.
C34_Original ==
  \A id \in Running :
    inflight.calls[id].op \in {"set", "mset"} => Issued(inflight.calls[id]) = StoreIds

\* C35: when every call has completed and the last write has returned, no
\* store holds another value of the key than the one of that write (nothing
\* after a del), and a get returns it.
C35_Original ==
  (Running = {} /\ last.op # "idle") =>
    /\ \A s \in StoreIds : data[s][StepKey] = last.vals[1]
    /\ Get(config, stores, data, StepKey, {}, {}, 1).value = last.vals[1]

\* When every call has completed and no call was in progress when the last
\* write began, every store holds the value of that write (nothing after a
\* del), and a get returns it.
C35_QuietWrite ==
  (Running = {} /\ last.op # "idle" /\ last.flag) =>
    /\ \A s \in StoreIds : data[s][StepKey] = last.vals[1]
    /\ Get(config, stores, data, StepKey, {}, {}, 1).value = last.vals[1]

----------------------------------------------------------------------------
(* Properties of invalidateMultipleDependencies *)

\* The entries invalidateByDependency(dependency, {cascade: true}) removes
\* from the stores as they are, with no store failing.
CascadeRemoves(dependency, order) ==
  LET run == InvalidateByDependency(Surroundings(config, stores, {}, order),
                                    data, indexes, dependency, TRUE) IN
  {<<s, k>> \in StoreIds \X ValidKeys : data[s][k] # NULL /\ run.data[s][k] = NULL}

\* C36: invalidateMultipleDependencies(list, {cascade: true}) with no store
\* failing removes every entry that invalidateByDependency(d, {cascade:
\* true}) would remove for some d of the list.
C36_Original ==
  [][(/\ last'.op = "invalidateMultipleDependencies"
      /\ last'.flag
      /\ last'.down = {}) =>
       \A i \in DOMAIN last'.keys, order \in DepOrders :
         \A e \in CascadeRemoves(last'.keys[i], order) : data'[e[1]][e[2]] = NULL]_vars

\* Without cascade the batch removes what each of its members removes.
C36_WithoutCascade ==
  [][(/\ last'.op = "invalidateMultipleDependencies"
      /\ last'.down = {}) =>
       \A i \in DOMAIN last'.keys, order \in DepOrders :
         LET run == InvalidateByDependency(Surroundings(config, stores, {}, order),
                                           data, indexes, last'.keys[i], FALSE) IN
         \A s \in StoreIds, k \in ValidKeys :
           run.data[s][k] = NULL => data'[s][k] = NULL]_vars

----------------------------------------------------------------------------
(* Properties of the failure counter *)

\* C37: a failed call on a store whose breaker is closed raises the failure
\* counter by exactly one, whether it passes the breaker once (get) or calls
\* other operations of the store that pass it again (mget), and the breaker
\* opens only with the threshold-th failed call in a row.
C37_Original ==
  [][(breaker'.out = "error" /\ ~breaker.isOpen) =>
       /\ breaker'.failures = breaker.failures + 1
       /\ breaker'.isOpen => breaker'.streak >= breaker.errorThreshold]_vars

----------------------------------------------------------------------------
(* Properties of MemcachedStore's index sets *)

\* The entries the store holds are in the set of the tag they carry.
TagSetComplete ==
  \A k \in ValidKeys : data[1][k] # NULL => k \in indexes[1].tag[SharedTag]

\* C38: when the sets that gave keys the same tag have all completed, the
\* set of the tag contains every one of the keys.
C38_Original == Busy = {} => TagSetComplete

\* The same for the sets each of which completed before the next began.
C38_OneAtATime == (Busy = {} /\ ~inflight.overlapped) => TagSetComplete

----------------------------------------------------------------------------
(* Properties of the async option with cascade *)

\* The entries store s holds that are indexed under dependency.
HeldUnder(s, dependency) ==
  {k \in indexes[s].dependency[dependency] : data[s][k] # NULL}

\* An async invalidateByDependency has returned and every store has
\* answered it.
AsyncCarriedOut ==
  /\ last.op = "invalidateByDependency"
  /\ last.vals[1].async
  /\ pending = {}

\* The children of the dependency of the last call, as findChildDependencies
\* finds them in the stores.
ChildrenLeft ==
  UNION {{children[i] : i \in DOMAIN children} :
           children \in {findChildDependencies(Surroundings(config, stores, {}, order),
                                               data, last.keys[1]) : order \in DepOrders}}

\* When every store has answered an async invalidateByDependency, no store
\* holds an entry indexed under the dependency.
C39_EveryStoreInvalidates ==
  AsyncCarriedOut => \A s \in StoreIds : HeldUnder(s, last.keys[1]) = {}

\* C39: an async invalidation is carried out by every store in the end, and
\* with async and cascade both set the child dependencies are invalidated
\* too: when every store has answered, no store holds an entry indexed under
\* the dependency, nor, with cascade, under one of its children.
C39_Original ==
  AsyncCarriedOut =>
    /\ \A s \in StoreIds : HeldUnder(s, last.keys[1]) = {}
    /\ last.vals[1].cascade =>
         \A child \in ChildrenLeft, s \in StoreIds : HeldUnder(s, child) = {}

----------------------------------------------------------------------------
(* Properties of RedisStore.del *)

\* After the step the RedisStore s does not hold key, and key is in none of
\* the sets of the tags and dependencies its entry carried.
DeletedFrom(s, key) ==
  /\ data'[s][key] = NULL
  /\ \A id \in indexes[s].entry[key].tag : key \notin indexes'[s].tag[id]
  /\ \A id \in indexes[s].entry[key].dependency : key \notin indexes'[s].dependency[id]

\* C40: del of a key that a RedisStore holds, whatever its value, deletes
\* the key from that store, returns true, and removes the key from the sets
\* of the tags and dependencies of its entry.
C40_Original ==
  [][last'.op = "del" =>
       \A s \in StoreIds :
         (config[s] = "RedisStore" /\ data[s][last'.keys[1]] # NULL) =>
           DeletedFrom(s, last'.keys[1]) /\ last'.flag]_vars

\* The same for the values that are truthy.
C40_TruthyValue ==
  [][last'.op = "del" =>
       \A s \in StoreIds :
         (config[s] = "RedisStore" /\ Truthy(data[s][last'.keys[1]])) =>
           DeletedFrom(s, last'.keys[1]) /\ last'.flag]_vars
====
